---- MODULE Spec2Model ----
(***************************************************************************)
(* Verification model of OpenAssetTools:                                   *)
(*   - the IW4 menu dumper's expression statement serializer               *)
(*     (MenuDumperIw4::WriteStatementProperty and its helpers),            *)
(*   - the T6 InfoString <-> structure converters,                         *)
(*   - the T6 XModel JSON loader (T6::LoadXModelAsJson),                   *)
(*   - the T6 sound bank loader (AssetLoaderSoundBank::LoadFromRaw).       *)
(* Stream output is modelled as the sequence of pieces written with <<.    *)
(* Entry positions are 0-based as in the source; EntryAt does the shift.   *)
(***************************************************************************)
EXTENDS Integers, Sequences, FiniteSets, TLC

VARIABLES
    statementValue,      \* const Statement_s* statementValue (NullPtr or a record)
    isBooleanStatement,  \* const bool isBooleanStatement
    out,                 \* m_stream: the pieces written so far
    stack,               \* active WriteStatementEntryRange calls, innermost last
    pc,                  \* "call", "range", "done", "aborted"
    trace,               \* history: tokens rendered and closing-parenthesis searches
    oobRead,             \* history: some read of entries[i] had i >= numEntries
    structure,           \* InfoString converters: the structure instance (field -> value)
    fields,              \* InfoString converters: the cspField_t table
    infoString,          \* InfoString converters: key -> value pairs set so far
    target,              \* InfoString converters: the structure being filled
    fieldIndex,          \* InfoString converters: loop variable of FillInfoString
    visited,             \* InfoString converters: history of the fields routed so far
    cpc,                 \* InfoString converters: "fill", "convert", "done", "aborted"
    jXModel,             \* XModel loader: the JSON document in the stream
    zoneAssets,          \* XModel loader: the assets the loading manager can resolve
    xmodel,              \* XModel loader: the XModel being filled
    m_dependencies,      \* XModel loader: dependenciesSet, the set the loader emplaces into
    dependencies,        \* XModel loader: the caller's dependencies vector
    loadCalls,           \* XModel loader: history of the LoadDependency calls and results
    loadResult,          \* XModel loader: the value LoadXModelAsJson returns
    lpc,                 \* XModel loader: "call", "load", "create", "physPreset",
                         \* "physConstraints", "done", "thrown"
    sndInput,            \* sound bank loader: the asset name and the files of the search path
    sndBank,             \* sound bank loader: the SndBank being filled
    sndLocals,           \* sound bank loader: loop variables and entry counters
    addedAssets,         \* sound bank loader: history of the AddAsset calls
    sndResult,           \* sound bank loader: the value the called function returns
    spc                  \* sound bank loader: position in LoadFromRaw and its callees

stmtVars == <<statementValue, isBooleanStatement, out, stack, pc, trace, oobRead>>
convVars == <<structure, fields, infoString, target, fieldIndex, visited, cpc>>
loadVars ==
    <<jXModel, zoneAssets, xmodel, m_dependencies, dependencies, loadCalls, loadResult, lpc>>
sndVars == <<sndInput, sndBank, sndLocals, addedAssets, sndResult, spc>>
vars == <<stmtVars, convVars, loadVars, sndVars>>

NullPtr == "nullptr"

(***************************************************************************)
(* Bounds of the model.                                                    *)
(***************************************************************************)
MaxEntries == 4         \* longest statement over the structural alphabet
MaxOperandEntries == 3  \* longest statement over the operand alphabet
MaxFields == 2          \* longest cspField_t table

(***************************************************************************)
(* Expression entries (IW4 Statement_s).                                   *)
(***************************************************************************)
EET_OPERATOR == "EET_OPERATOR"
EET_OPERAND == "EET_OPERAND"
VAL_INT == "VAL_INT"
VAL_FLOAT == "VAL_FLOAT"
VAL_STRING == "VAL_STRING"
VAL_FUNCTION == "VAL_FUNCTION"

\* Operator codes: the index of the operator's text in g_expFunctionNames.
\* The enumeration itself is declared in a header that is not part of the
\* sources at hand; OP_NEG is taken to be the unary operator "!".
OP_NOOP == 0
OP_RIGHTPAREN == 1
OP_ADD == 5
OP_NEG == 7
OP_LEFTPAREN == 16
OP_COMMA == 17
OP_COUNT == 23
EXP_FUNC_STATIC_DVAR_INT == 23
EXP_FUNC_STATIC_DVAR_BOOL == 24
EXP_FUNC_STATIC_DVAR_FLOAT == 25
EXP_FUNC_STATIC_DVAR_STRING == 26
EXP_FUNC_INT == 27

\* The static dvar entries carry two control bytes after their text in the
\* source; they are never written (the static dvar branch comes first).
g_expFunctionNames == <<
    "NOOP", ")", "*", "/", "%", "+", "-", "!", "<", "<=", ">", ">=", "==", "!=", "&&", "||",
    "(", ",", "&", "|", "~", "<<", ">>", "dvarint(static)", "dvarbool(static)",
    "dvarfloat(static)", "dvarstring(static)", "int", "string", "float", "sin", "cos", "min",
    "max", "milliseconds", "dvarint", "dvarbool", "dvarfloat", "dvarstring", "stat",
    "ui_active", "flashbanged", "usingvehicle", "missilecam", "scoped", "scopedthermal",
    "scoreboard_visible", "inkillcam", "inkillcamnpc", "player", "getperk",
    "selecting_location", "selecting_direction", "team", "otherteam", "marinesfield",
    "opforfield", "menuisopen", "writingdata", "inlobby", "inprivateparty", "privatepartyhost",
    "privatepartyhostinlobby", "aloneinparty", "adsjavelin", "weaplockblink", "weapattacktop",
    "weapattackdirect", "weaplocking", "weaplocked", "weaplocktooclose", "weaplockscreenposx",
    "weaplockscreenposy", "secondsastime", "tablelookup", "tablelookupbyrow", "tablegetrownum",
    "locstring", "localvarint", "localvarbool", "localvarfloat", "localvarstring", "timeleft",
    "secondsascountdown", "gamemsgwndactive", "gametypename", "gametype",
    "gametypedescription", "scoreatrank", "friendsonline", "spectatingclient",
    "spectatingfree", "statrangeanybitsset", "keybinding", "actionslotusable", "hudfade",
    "maxrecommendedplayers", "acceptinginvite", "isintermission", "gamehost",
    "partyismissingmappack", "partymissingmappackerror", "anynewmappacks", "amiselected",
    "partystatusstring", "attachedcontrollercount", "issplitscreenonlinepossible",
    "splitscreenplayercount", "getplayerdata", "getplayerdatasplitscreen",
    "experienceforlevel", "levelforexperience", "isitemunlocked", "isitemunlockedsplitscreen",
    "debugprint", "getplayerdataanybooltrue", "weaponclassnew", "weaponname", "isreloading",
    "savegameavailable", "unlockeditemcount", "unlockeditemcountsplitscreen", "unlockeditem",
    "unlockeditemsplitscreen", "mailsubject", "mailfrom", "mailreceived", "mailbody",
    "maillootlocalized", "mailgivesloot", "anynewmail", "mailtimetofollowup", "mailloottype",
    "mailranlottery", "lotterylootlocalized", "radarisjammed", "radarjamintensity",
    "radarisenabled", "isempjammed", "playerads", "weaponheatactive", "weaponheatvalue",
    "weaponheatoverheated", "getsplashtext", "getsplashdescription", "getsplashmaterial",
    "splashhasicon", "splashrownum", "getfocuseditemname", "getfocuseditemx",
    "getfocuseditemy", "getfocuseditemwidth", "getfocuseditemheight", "getitemx", "getitemy",
    "getitemwidth", "getitemheight", "playlist", "scoreboardexternalmutenotice",
    "getclientmatchdata", "getclientmatchdatadef", "getmapname", "getmapimage", "getmapcustom",
    "getmigrationstatus", "getplayercardinfo", "isofflineprofileselected", "coopplayer",
    "iscoop", "getpartystatus", "getsearchparams", "gettimeplayed", "isselectedplayerfriend",
    "getcharbyindex", "getprofiledata", "isprofilesignedin", "getwaitpopupstatus",
    "getnattype", "getlocalizednattype", "getadjustedsafeareahorizontal",
    "getadjustedsafeareavertical", "connectioninfo", "offlineprofilecansave",
    "allsplitscreenprofilescansave", "allsplitscreenprofilesaresignedin", "coopready"
>>

NumFunctionNames == Len(g_expFunctionNames)

Op(code) == [type |-> EET_OPERATOR, op |-> code, dataType |-> VAL_INT, val |-> 0]
Operand(dt, v) == [type |-> EET_OPERAND, op |-> 0, dataType |-> dt, val |-> v]

\* operand.internals.stringVal.string: val indexes this pool
StringPool == <<"text">>

\* Function handles are addresses; the supporting table lists 200 twice.
UiFunctions == <<100, 200, 200>>

StaticDvar(name) == [null |-> FALSE, dvarName |-> name]
NullStaticDvar == [null |-> TRUE, dvarName |-> NullPtr]

SupportingData(funcs, dvars) ==
    [null |-> FALSE,
     functionsNull |-> FALSE, functions |-> funcs, totalFunctions |-> Len(funcs),
     staticDvarsNull |-> FALSE, staticDvars |-> dvars, numStaticDvars |-> Len(dvars)]

NoSupportingData ==
    [null |-> TRUE,
     functionsNull |-> TRUE, functions |-> <<>>, totalFunctions |-> 0,
     staticDvarsNull |-> TRUE, staticDvars |-> <<>>, numStaticDvars |-> 0]

EmptySupportingData ==
    [null |-> FALSE,
     functionsNull |-> TRUE, functions |-> <<>>, totalFunctions |-> 0,
     staticDvarsNull |-> TRUE, staticDvars |-> <<>>, numStaticDvars |-> 0]

FullSupportingData == SupportingData(UiFunctions, <<StaticDvar("ui_dvar")>>)

\* a table of a null dvar and a dvar without name
NamelessSupportingData == SupportingData(UiFunctions, <<NullStaticDvar, StaticDvar(NullPtr)>>)

Statement(e, sd) ==
    [null |-> FALSE, numEntries |-> Len(e), entries |-> e, supportingData |-> sd]

EntryAt(statement, i) == statement.entries[i + 1]

(***************************************************************************)
(* FindStatementClosingParenthesis: the for loop as a recursion on the     *)
(* search position and the depth.                                          *)
(***************************************************************************)
RECURSIVE FindLoop(_, _, _)
FindLoop(statement, currentSearchPosition, currentParenthesisDepth) ==
    IF currentSearchPosition >= statement.numEntries
    THEN statement.numEntries
    ELSE LET expEntry == EntryAt(statement, currentSearchPosition) IN
         IF expEntry.type # EET_OPERATOR
         THEN FindLoop(statement, currentSearchPosition + 1, currentParenthesisDepth)
         ELSE IF expEntry.op = OP_LEFTPAREN \/ expEntry.op >= OP_COUNT
         THEN FindLoop(statement, currentSearchPosition + 1, currentParenthesisDepth + 1)
         ELSE IF expEntry.op = OP_RIGHTPAREN
         THEN LET depth == IF currentParenthesisDepth > 0
                           THEN currentParenthesisDepth - 1
                           ELSE currentParenthesisDepth
              IN IF depth = 0
                 THEN currentSearchPosition
                 ELSE FindLoop(statement, currentSearchPosition + 1, depth)
         ELSE FindLoop(statement, currentSearchPosition + 1, currentParenthesisDepth)

\* A search that forgets that a function operator stands for a left parenthesis.
RECURSIVE FindLoopParenOnly(_, _, _)
FindLoopParenOnly(statement, currentSearchPosition, currentParenthesisDepth) ==
    IF currentSearchPosition >= statement.numEntries
    THEN statement.numEntries
    ELSE LET expEntry == EntryAt(statement, currentSearchPosition) IN
         IF expEntry.type # EET_OPERATOR
         THEN FindLoopParenOnly(statement, currentSearchPosition + 1, currentParenthesisDepth)
         ELSE IF expEntry.op = OP_LEFTPAREN
         THEN FindLoopParenOnly(statement, currentSearchPosition + 1, currentParenthesisDepth + 1)
         ELSE IF expEntry.op = OP_RIGHTPAREN
         THEN LET depth == IF currentParenthesisDepth > 0
                           THEN currentParenthesisDepth - 1
                           ELSE currentParenthesisDepth
              IN IF depth = 0
                 THEN currentSearchPosition
                 ELSE FindLoopParenOnly(statement, currentSearchPosition + 1, depth)
         ELSE FindLoopParenOnly(statement, currentSearchPosition + 1, currentParenthesisDepth)

FindParenOnly(statement, openingParenthesisPosition) ==
    FindLoopParenOnly(statement, openingParenthesisPosition + 1, 1)

\* A search that returns the last entry instead of the end of the entries.
FindLastEntry(statement, openingParenthesisPosition) ==
    LET found == FindLoop(statement, openingParenthesisPosition + 1, 1) IN
    IF found = statement.numEntries THEN statement.numEntries - 1 ELSE found

\* A search that answers the position behind the closing parenthesis.
FindBehind(statement, openingParenthesisPosition) ==
    FindLoop(statement, openingParenthesisPosition + 1, 1) + 1

\* A search that answers the position in front of the opening parenthesis.
FindInFront(statement, openingParenthesisPosition) == openingParenthesisPosition - 1

FindStatementClosingParenthesis(statement, openingParenthesisPosition) ==
    FindLoop(statement, openingParenthesisPosition + 1, 1)

\* The two assertions at the top of FindStatementClosingParenthesis.
FindPreconditions(statement, openingParenthesisPosition) ==
    /\ statement.numEntries >= 0
    /\ openingParenthesisPosition < statement.numEntries

\* The two assertions at the top of WriteStatementEntryRange.
RangePreconditions(statement, startOffset, endOffset) ==
    /\ startOffset <= endOffset
    /\ endOffset <= statement.numEntries

(***************************************************************************)
(* Text of numbers as operator<< writes them.                              *)
(***************************************************************************)
\* A float held in thousandths, in the default stream format (the values
\* of the model have at most six significant digits).
FormatThousandths(v) ==
    LET a == IF v < 0 THEN 0 - v ELSE v
        whole == a \div 1000
        frac == a % 1000
        sign == IF v < 0 THEN "-" ELSE ""
        digits == IF frac = 0 THEN ""
                  ELSE IF frac % 100 = 0 THEN ToString(frac \div 100)
                  ELSE IF frac % 10 = 0
                       THEN (IF frac < 100 THEN "0" ELSE "") \o ToString(frac \div 10)
                  ELSE (IF frac < 10 THEN "00" ELSE IF frac < 100 THEN "0" ELSE "")
                       \o ToString(frac)
    IN sign \o ToString(whole) \o (IF frac = 0 THEN "" ELSE "." \o digits)

(***************************************************************************)
(* Pieces written by the serializer.                                       *)
(***************************************************************************)
MENU_KEY_SPACING == 28

\* propertyKey, one character per element
PropertyKey == <<"v", "i", "s", "i", "b", "l", "e">>

\* MenuDumper::Indent of the base class: the indentation of the current level
Indent == <<"  ">>

WriteKey(keyName) ==
    keyName \o
    (IF Len(keyName) < MENU_KEY_SPACING
     THEN [i \in 1..(MENU_KEY_SPACING - Len(keyName)) |-> " "]
     ELSE <<>>)

\* "when", and a space when the first entry is not (
WhenAlwaysSpace(statement) == <<"when", " ">>

WhenPrefix(statement) ==
    <<"when">> \o
    (IF \/ statement.numEntries < 1
        \/ EntryAt(statement, 0).type # EET_OPERATOR
        \/ EntryAt(statement, 0).op # OP_LEFTPAREN
     THEN <<" ">>
     ELSE <<>>)

\* WriteStatementOperator: the space before an operator
OperatorSpaceAlways(spaceNext, op) == spaceNext

OperatorSpace(spaceNext, op) == spaceNext /\ op # OP_COMMA

\* WriteStatementOperator: spaceNext after an operator of the table
SpaceAfterAlways(op) == TRUE

SpaceAfterOperator(op) == op # OP_NEG

\* A lookup that knows the operators below OP_COUNT only.
OperatorNameBelowCount(op) ==
    IF op >= 0 /\ op < OP_COUNT
    THEN <<g_expFunctionNames[op + 1]>>
    ELSE <<>>

\* WriteStatementOperator: the text of an operator of the table, if any
OperatorName(op) ==
    IF op >= 0 /\ op < NumFunctionNames
    THEN <<g_expFunctionNames[op + 1]>>
    ELSE <<>>

StaticDvarName(op) ==
    CASE op = EXP_FUNC_STATIC_DVAR_INT -> <<"dvarint">>
      [] op = EXP_FUNC_STATIC_DVAR_BOOL -> <<"dvarbool">>
      [] op = EXP_FUNC_STATIC_DVAR_FLOAT -> <<"dvarfloat">>
      [] op = EXP_FUNC_STATIC_DVAR_STRING -> <<"dvarstring">>
      [] OTHER -> <<>>

IsStaticDvar(op) ==
    op >= EXP_FUNC_STATIC_DVAR_INT /\ op <= EXP_FUNC_STATIC_DVAR_STRING

\* A static dvar lookup that lets the index reach numStaticDvars.
StaticDvarTextOffByOne(statement, staticDvarEntry) ==
    IF staticDvarEntry.type = EET_OPERAND /\ staticDvarEntry.dataType = VAL_INT
    THEN IF /\ ~statement.supportingData.null
            /\ ~statement.supportingData.staticDvarsNull
            /\ staticDvarEntry.val >= 0
            /\ staticDvarEntry.val <= statement.supportingData.numStaticDvars
         THEN IF staticDvarEntry.val < statement.supportingData.numStaticDvars
              THEN <<statement.supportingData.staticDvars[staticDvarEntry.val + 1].dvarName>>
              ELSE <<>>
         ELSE <<"#INVALID_DVAR_INDEX">>
    ELSE <<"#INVALID_DVAR_OPERAND">>

\* A static dvar lookup that takes every operand for an index.
StaticDvarTextAnyOperand(statement, staticDvarEntry) ==
    IF staticDvarEntry.type = EET_OPERAND
    THEN <<"#INVALID_DVAR_INDEX">>
    ELSE <<"#INVALID_DVAR_OPERAND">>

\* WriteStatementOperator: what stands between the parentheses of a static dvar
StaticDvarText(statement, staticDvarEntry) ==
    IF staticDvarEntry.type = EET_OPERAND /\ staticDvarEntry.dataType = VAL_INT
    THEN IF /\ ~statement.supportingData.null
            /\ ~statement.supportingData.staticDvarsNull
            /\ staticDvarEntry.val >= 0
            /\ staticDvarEntry.val < statement.supportingData.numStaticDvars
         THEN LET staticDvar ==
                      statement.supportingData.staticDvars[staticDvarEntry.val + 1]
              IN IF ~staticDvar.null /\ staticDvar.dvarName # NullPtr
                 THEN <<staticDvar.dvarName>>
                 ELSE <<>>
         ELSE <<"#INVALID_DVAR_INDEX">>
    ELSE <<"#INVALID_DVAR_OPERAND">>

\* WriteStatementOperand: the linear search of the function table
RECURSIVE FunctionSearch(_, _, _)
FunctionSearch(functions, function, supportingFunctionIndex) ==
    IF supportingFunctionIndex >= Len(functions)
    THEN -1
    ELSE IF functions[supportingFunctionIndex + 1] = function
         THEN supportingFunctionIndex
         ELSE FunctionSearch(functions, function, supportingFunctionIndex + 1)

\* A search without the break: the last match wins.
RECURSIVE FunctionSearchLast(_, _, _, _)
FunctionSearchLast(functions, function, supportingFunctionIndex, found) ==
    IF supportingFunctionIndex >= Len(functions)
    THEN found
    ELSE FunctionSearchLast(functions, function, supportingFunctionIndex + 1,
             IF functions[supportingFunctionIndex + 1] = function
             THEN supportingFunctionIndex ELSE found)

FunctionIndexLast(statement, operand) ==
    IF ~statement.supportingData.null /\ ~statement.supportingData.functionsNull
    THEN FunctionSearchLast(statement.supportingData.functions, operand.val, 0, -1)
    ELSE -1

FunctionIndex(statement, operand) ==
    IF ~statement.supportingData.null /\ ~statement.supportingData.functionsNull
    THEN FunctionSearch(
             SubSeq(statement.supportingData.functions, 1,
                    statement.supportingData.totalFunctions),
             operand.val, 0)
    ELSE -1

\* WriteStatementOperand: the switch on operand.dataType
OperandText(statement, operand) ==
    CASE operand.dataType = VAL_FLOAT -> <<FormatThousandths(operand.val)>>
      [] operand.dataType = VAL_INT -> <<ToString(operand.val)>>
      [] operand.dataType = VAL_STRING -> <<"\"", StringPool[operand.val], "\"">>
      [] operand.dataType = VAL_FUNCTION ->
            LET functionIndex == FunctionIndex(statement, operand) IN
            IF functionIndex >= 0
            THEN <<"FUNC_", ToString(functionIndex)>>
            ELSE <<"INVALID_FUNC">>
      [] OTHER -> <<>>

Space(b) == IF b THEN <<" ">> ELSE <<>>

(***************************************************************************)
(* The serializer as a state machine.  A frame is one active call of       *)
(* WriteStatementEntryRange with its loop variables; a suspended frame     *)
(* also keeps closingParenPos and op of the WriteStatementOperator call    *)
(* that is waiting for the nested range.                                   *)
(***************************************************************************)
Frame(startOffset, endOffset) ==
    [startOffset |-> startOffset, endOffset |-> endOffset,
     currentPos |-> startOffset, spaceNext |-> FALSE,
     closingParenPos |-> 0, op |-> 0]

Top == stack[Len(stack)]

Event(kind, pos, range, at, space, ret) ==
    [kind |-> kind, pos |-> pos, range |-> range, at |-> at, space |-> space, ret |-> ret]

\* entries[i] as the build reads it: past the end of the array the read
\* yields whatever lies behind the array
GarbageEntries == {Op(OP_NOOP), Operand(VAL_INT, 0), Operand(VAL_INT, -1)}

ReadEntry(statement, i) ==
    IF i < statement.numEntries THEN {EntryAt(statement, i)} ELSE GarbageEntries

StructuralAlphabet ==
    {Op(OP_RIGHTPAREN), Op(OP_ADD), Op(OP_NEG), Op(OP_LEFTPAREN), Op(OP_COMMA),
     Op(EXP_FUNC_INT), Op(EXP_FUNC_STATIC_DVAR_INT),
     Operand(VAL_INT, 0), Operand(VAL_INT, 1)}

OperandAlphabet ==
    {Op(OP_RIGHTPAREN),
     Op(EXP_FUNC_STATIC_DVAR_INT), Op(EXP_FUNC_STATIC_DVAR_BOOL),
     Op(EXP_FUNC_STATIC_DVAR_FLOAT), Op(EXP_FUNC_STATIC_DVAR_STRING),
     Operand(VAL_INT, -1), Operand(VAL_INT, 0), Operand(VAL_INT, 1),
     Operand(VAL_FLOAT, 1500), Operand(VAL_STRING, 1),
     Operand(VAL_FUNCTION, 200), Operand(VAL_FUNCTION, 300)}

SeqsUpTo(S, n) == UNION {[1..k -> S] : k \in 0..n}

StructuralStatements ==
    {Statement(e, FullSupportingData) : e \in SeqsUpTo(StructuralAlphabet, MaxEntries)}

OperandStatements ==
    {Statement(e, sd) :
        e \in SeqsUpTo(OperandAlphabet, MaxOperandEntries),
        sd \in {NoSupportingData, EmptySupportingData, FullSupportingData,
                NamelessSupportingData}}

\* a null statement pointer, and a statement with a negative entry count
DegenerateStatements ==
    {[null |-> TRUE, numEntries |-> 0, entries |-> <<>>, supportingData |-> NoSupportingData],
     [null |-> FALSE, numEntries |-> -1, entries |-> <<>>, supportingData |-> NoSupportingData]}

ConvIdle ==
    /\ structure = <<>>
    /\ fields = <<>>
    /\ infoString = <<>>
    /\ target = <<>>
    /\ fieldIndex = 0
    /\ visited = <<>>
    /\ cpc = "idle"

\* an XAssetInfoGeneric*: the null pointer, and a pointer to the info of an asset
NullAssetInfo == [null |-> TRUE, type |-> "", name |-> ""]

AssetInfo(type, name) == [null |-> FALSE, type |-> type, name |-> name]

\* an XModel before the loader has written to it
EmptyXModel ==
    [numLods |-> 0, numsurfs |-> 0, collLod |-> 0,
     physPreset |-> NullPtr, physConstraints |-> NullPtr]

LoadIdle ==
    /\ jXModel = [shape |-> "ok", type |-> "", version |-> 0, lods |-> <<>>,
                  collLod |-> [has |-> FALSE, value |-> 0],
                  physPreset |-> NullPtr, physConstraints |-> NullPtr]
    /\ zoneAssets = {}
    /\ xmodel = EmptyXModel
    /\ m_dependencies = {}
    /\ dependencies = <<>>
    /\ loadCalls = <<>>
    /\ loadResult = FALSE
    /\ lpc = "idle"

\* a file of the search path that could not be opened
ClosedFile == [open |-> FALSE, rows |-> <<>>]

OpenFile(rows) == [open |-> TRUE, rows |-> rows]

\* a SndBank after memset(sndBank, 0, sizeof(SndBank))
ZeroSndBank == [aliasCount |-> 0, alias |-> <<>>, aliasIndex |-> <<>>,
                radverbCount |-> 0, duckCount |-> 0, entryCount |-> 0]

ZeroSndLocals ==
    [row |-> 0, listIndex |-> 0, i |-> 0, setAliasIndexList |-> <<>>,
     loadedEntryCount |-> 0, streamedEntryCount |-> 0]

SndIdle ==
    /\ sndInput = [direct |-> FALSE, assetName |-> <<>>, aliasFile |-> ClosedFile,
                   radverbFile |-> ClosedFile, duckListFile |-> ClosedFile]
    /\ sndBank = ZeroSndBank
    /\ sndLocals = ZeroSndLocals
    /\ addedAssets = <<>>
    /\ sndResult = FALSE
    /\ spc = "idle"

Init ==
    /\ \/ /\ statementValue \in StructuralStatements \cup DegenerateStatements
          /\ isBooleanStatement \in BOOLEAN
       \/ /\ statementValue \in OperandStatements
          /\ isBooleanStatement = FALSE
    /\ out = <<>>
    /\ stack = <<>>
    /\ pc = "call"
    /\ trace = <<>>
    /\ oobRead = FALSE
    /\ ConvIdle
    /\ LoadIdle
    /\ SndIdle

\* if (statementValue == nullptr || statementValue->numEntries < 0) return;
StatementMissingOrEmpty(statement) == statement.null \/ statement.numEntries <= 0

StatementMissing(statement) == statement.null \/ statement.numEntries < 0

\* WriteStatementProperty up to the call of WriteStatementEntryRange
WriteStatementProperty ==
    /\ pc = "call"
    /\ IF StatementMissing(statementValue)
       THEN /\ pc' = "done"
            /\ UNCHANGED <<out, stack>>
       ELSE LET statementEnd == statementValue.numEntries IN
            /\ out' = out \o Indent \o WriteKey(PropertyKey)
                          \o (IF isBooleanStatement
                              THEN WhenPrefix(statementValue)
                              ELSE <<>>)
            /\ IF RangePreconditions(statementValue, 0, statementEnd)
               THEN /\ stack' = <<Frame(0, statementEnd)>>
                    /\ pc' = "range"
               ELSE /\ stack' = stack
                    /\ pc' = "aborted"
    /\ UNCHANGED <<statementValue, isBooleanStatement, trace, oobRead, convVars, loadVars, sndVars>>

\* The part that the ( branch and the function branch of WriteStatementOperator
\* share: find the closing parenthesis, write text and "(", enter the range.
EnterRange(frame, op, text, at, spaced) ==
    LET currentPos == frame.currentPos IN
    IF ~FindPreconditions(statementValue, currentPos)
    THEN /\ pc' = "aborted"
         /\ UNCHANGED <<out, stack, trace>>
    ELSE LET closingParenPos == FindStatementClosingParenthesis(statementValue, currentPos) IN
         /\ out' = out \o text \o <<"(">>
         /\ trace' = trace \o
                <<Event("open", currentPos, frame.startOffset, at, spaced, closingParenPos)>>
         /\ IF RangePreconditions(statementValue, currentPos + 1, closingParenPos)
            THEN /\ stack' = Append(
                        [stack EXCEPT ![Len(stack)] =
                            [frame EXCEPT !.closingParenPos = closingParenPos, !.op = op]],
                        Frame(currentPos + 1, closingParenPos))
                 /\ pc' = "range"
            ELSE /\ stack' = stack
                 /\ pc' = "aborted"

\* The closing parenthesis written after a nested range or a static dvar
UnmatchedUnclosed(statement, closingParenPos) ==
    IF closingParenPos < statement.numEntries THEN <<")">> ELSE <<>>

ClosingText(statement, closingParenPos) == <<")">>

\* One call of WriteStatementOperator, up to its recursive call if it makes one
WriteStatementOperator ==
    /\ pc = "range"
    /\ Top.currentPos < Top.endOffset
    /\ EntryAt(statementValue, Top.currentPos).type = EET_OPERATOR
    /\ LET frame == Top
           currentPos == frame.currentPos
           op == EntryAt(statementValue, currentPos).op
           at == Len(out) + 1
           spaced == OperatorSpace(frame.spaceNext, op)
       IN
       IF op = OP_LEFTPAREN
       THEN /\ EnterRange(frame, op, Space(spaced), at, spaced)
            /\ UNCHANGED oobRead
       ELSE IF IsStaticDvar(op)
       THEN IF ~FindPreconditions(statementValue, currentPos)
            THEN /\ pc' = "aborted"
                 /\ UNCHANGED <<out, stack, trace, oobRead>>
            ELSE LET closingParenPos ==
                         FindStatementClosingParenthesis(statementValue, currentPos)
                 IN
                 \* size_t arithmetic: the difference is never below 1
                 /\ IF closingParenPos - currentPos + 1 >= 1
                    THEN \E staticDvarEntry \in ReadEntry(statementValue, currentPos + 1) :
                            /\ out' = out \o Space(spaced) \o StaticDvarName(op) \o <<"(">>
                                          \o StaticDvarText(statementValue, staticDvarEntry)
                                          \o ClosingText(statementValue, closingParenPos)
                            /\ oobRead' = (oobRead \/ currentPos + 1 >= statementValue.numEntries)
                    ELSE /\ out' = out \o Space(spaced) \o StaticDvarName(op) \o <<"(">>
                                       \o ClosingText(statementValue, closingParenPos)
                         /\ oobRead' = oobRead
                 /\ stack' = [stack EXCEPT ![Len(stack)] =
                                 [frame EXCEPT !.currentPos = closingParenPos + 1,
                                               !.spaceNext = TRUE]]
                 /\ trace' = trace \o
                        <<Event("open", currentPos, frame.startOffset, at, spaced, closingParenPos),
                          Event("close", currentPos, frame.startOffset, Len(out') , FALSE,
                                closingParenPos)>>
                 /\ pc' = "range"
       ELSE IF op >= OP_COUNT
            THEN /\ EnterRange(frame, op, Space(spaced) \o OperatorName(op), at, spaced)
                 /\ UNCHANGED oobRead
            ELSE /\ out' = out \o Space(spaced) \o OperatorName(op)
                 /\ stack' = [stack EXCEPT ![Len(stack)] =
                                 [frame EXCEPT !.currentPos = currentPos + 1,
                                               !.spaceNext = SpaceAfterOperator(op)]]
                 /\ trace' = Append(trace,
                        Event("operator", currentPos, frame.startOffset, at, spaced, 0))
                 /\ pc' = "range"
                 /\ UNCHANGED oobRead
    /\ UNCHANGED <<statementValue, isBooleanStatement, convVars, loadVars, sndVars>>

\* One call of WriteStatementOperand
WriteStatementOperand ==
    /\ pc = "range"
    /\ Top.currentPos < Top.endOffset
    /\ EntryAt(statementValue, Top.currentPos).type # EET_OPERATOR
    /\ LET frame == Top
           expEntry == EntryAt(statementValue, frame.currentPos)
       IN /\ out' = out \o Space(frame.spaceNext) \o OperandText(statementValue, expEntry)
          /\ stack' = [stack EXCEPT ![Len(stack)] =
                          [frame EXCEPT !.currentPos = frame.currentPos + 1,
                                        !.spaceNext = TRUE]]
          /\ trace' = Append(trace,
                 Event("operand", frame.currentPos, frame.startOffset, Len(out) + 1,
                       frame.spaceNext, 0))
    /\ UNCHANGED <<statementValue, isBooleanStatement, pc, oobRead, convVars, loadVars, sndVars>>

\* A nested WriteStatementEntryRange returns into WriteStatementOperator, which
\* writes ")" and moves its caller's cursor behind the closing parenthesis
WriteStatementEntryRangeReturn ==
    /\ pc = "range"
    /\ Len(stack) > 1
    /\ Top.currentPos >= Top.endOffset
    /\ LET caller == stack[Len(stack) - 1] IN
       /\ out' = out \o ClosingText(statementValue, caller.closingParenPos)
       /\ stack' = [SubSeq(stack, 1, Len(stack) - 1) EXCEPT ![Len(stack) - 1] =
                       [caller EXCEPT
                           !.currentPos = caller.closingParenPos + 1,
                           !.spaceNext = IF caller.op = OP_LEFTPAREN
                                         THEN TRUE
                                         ELSE SpaceAfterOperator(caller.op)]]
       /\ trace' = Append(trace,
              Event("close", caller.currentPos, caller.startOffset, Len(out'), FALSE,
                    caller.closingParenPos))
    /\ UNCHANGED <<statementValue, isBooleanStatement, pc, oobRead, convVars, loadVars, sndVars>>

\* The outermost WriteStatementEntryRange returns into WriteStatementProperty
WriteStatementPropertyEnd ==
    /\ pc = "range"
    /\ Len(stack) = 1
    /\ Top.currentPos >= Top.endOffset
    /\ out' = out \o <<";\n">>
    /\ stack' = <<>>
    /\ pc' = "done"
    /\ UNCHANGED <<statementValue, isBooleanStatement, trace, oobRead, convVars, loadVars, sndVars>>

Next ==
    \/ WriteStatementProperty
    \/ WriteStatementOperator
    \/ WriteStatementOperand
    \/ WriteStatementEntryRangeReturn
    \/ WriteStatementPropertyEnd

Spec == Init /\ [][Next]_vars

\* The serializer is one sequential call: as long as it has a next statement
\* to execute, it executes it.
SpecFair == Spec /\ WF_vars(Next)

(***************************************************************************)
(* The T6 InfoString converters.  A structure is the sequence of the       *)
(* values of its schema-covered members, one per field descriptor; a       *)
(* member value is a record of an integer part (integers, booleans, string *)
(* handles, hashes, and floats in thousandths) and a string part (a        *)
(* character pointer or buffer, or the name of the asset a pointer refers  *)
(* to; NullPtr for a null pointer).                                        *)
(***************************************************************************)
CSPFT_STRING == 0
CSPFT_STRING_MAX_STRING_CHARS == 1
CSPFT_STRING_MAX_QPATH == 2
CSPFT_STRING_MAX_OSPATH == 3
CSPFT_INT == 4
CSPFT_UINT == 5
CSPFT_BOOL == 6
CSPFT_QBOOLEAN == 7
CSPFT_FLOAT == 8
CSPFT_MILLISECONDS == 9
CSPFT_FX == 10
CSPFT_XMODEL == 11
CSPFT_MATERIAL == 12
CSPFT_MATERIAL_STREAM == 13
CSPFT_PHYS_PRESET == 14
CSPFT_SCRIPT_STRING == 15
CSPFT_TRACER == 16
CSPFT_SOUND_ALIAS_ID == 17
CSPFT_NUM_BASE_FIELD_TYPES == 18

Val(i, s) == [i |-> i, s |-> s]

\* a member of a zero-initialized structure
ZeroValue == Val(0, NullPtr)

\* InfoString::SetValueForKey: the value of an existing key is replaced,
\* a new key is added behind the others
SetValueForKey(info, key, value) ==
    IF \E k \in 1..Len(info) : info[k].key = key
    THEN [k \in 1..Len(info) |->
             IF info[k].key = key THEN [key |-> key, value |-> value] ELSE info[k]]
    ELSE Append(info, [key |-> key, value |-> value])

\* scriptStringValueCallback: the text of a script string handle
ScriptStrings == <<"", "tag_origin">>

\* The Fill... functions of InfoStringFromStructConverterBase.
FillFromString(info, key, v) ==
    IF v.s # NullPtr /\ v.s # "" THEN SetValueForKey(info, key, v.s) ELSE info

FillFromStringBuffer(info, key, v, bufferSize) ==
    IF v.s # NullPtr /\ v.s # "" THEN SetValueForKey(info, key, v.s) ELSE info

FillFromInt(info, key, v) == SetValueForKey(info, key, ToString(v.i))

FillFromUint(info, key, v) == SetValueForKey(info, key, ToString(v.i))

FillFromBool(info, key, v) == SetValueForKey(info, key, IF v.i # 0 THEN "1" ELSE "0")

FillFromQBoolean(info, key, v) == SetValueForKey(info, key, IF v.i # 0 THEN "1" ELSE "0")

FillFromFloat(info, key, v) == SetValueForKey(info, key, FormatThousandths(v.i))

FillFromMilliseconds(info, key, v) == SetValueForKey(info, key, FormatThousandths(v.i))

FillFromScriptString(info, key, v) == SetValueForKey(info, key, ScriptStrings[v.i + 1])

\* a pointer to an asset: the asset's name, or "" for a null pointer
FillFromPointerOmitNull(info, key, v) ==
    IF v.s # NullPtr THEN SetValueForKey(info, key, v.s) ELSE info

FillFromPointer(info, key, v) ==
    IF v.s # NullPtr THEN SetValueForKey(info, key, v.s) ELSE SetValueForKey(info, key, "")

\* std::to_string(unsigned) of a 32-bit word; the model keeps the word as a
\* signed number, so a word with the top bit set is below 0 and stands for
\* word + 2^32 = 429496729 * 10 + 6 + word
UnsignedDecimal(word) ==
    IF word >= 0
    THEN ToString(word)
    ELSE ToString(429496729 + ((word + 6) \div 10)) \o ToString((word + 6) % 10)

\* case CSPFT_SOUND_ALIAS_ID: "@" + std::to_string(*hash)
SoundAliasIdSigned(v) == "@" \o ToString(v.i)

SoundAliasIdText(v) == "@" \o UnsignedDecimal(v.i)

\* case CSPFT_NUM_BASE_FIELD_TYPES: default: assert(false)
DefaultBreaks(info) == [info |-> info, failed |-> FALSE]

DefaultCase(info) == [info |-> info, failed |-> TRUE]

\* InfoStringFromStructConverter::FillFromBaseField: the info string after the
\* switch, and whether the switch ran into assert(false)
FillFromBaseField(info, field, v) ==
    LET t == field.iFieldType
        key == field.szName
        ok(i) == [info |-> i, failed |-> FALSE]
    IN CASE t = CSPFT_STRING -> ok(FillFromString(info, key, v))
         [] t = CSPFT_STRING_MAX_STRING_CHARS -> ok(FillFromStringBuffer(info, key, v, 1024))
         [] t = CSPFT_STRING_MAX_QPATH -> ok(FillFromStringBuffer(info, key, v, 64))
         [] t = CSPFT_STRING_MAX_OSPATH -> ok(FillFromStringBuffer(info, key, v, 256))
         [] t = CSPFT_INT -> ok(FillFromInt(info, key, v))
         [] t = CSPFT_UINT -> ok(FillFromUint(info, key, v))
         [] t = CSPFT_BOOL -> ok(FillFromBool(info, key, v))
         [] t = CSPFT_QBOOLEAN -> ok(FillFromQBoolean(info, key, v))
         [] t = CSPFT_FLOAT -> ok(FillFromFloat(info, key, v))
         [] t = CSPFT_MILLISECONDS -> ok(FillFromMilliseconds(info, key, v))
         [] t = CSPFT_FX -> ok(FillFromPointer(info, key, v))
         [] t = CSPFT_XMODEL -> ok(FillFromPointer(info, key, v))
         [] t = CSPFT_MATERIAL \/ t = CSPFT_MATERIAL_STREAM -> ok(FillFromPointer(info, key, v))
         [] t = CSPFT_PHYS_PRESET -> ok(FillFromPointer(info, key, v))
         [] t = CSPFT_SCRIPT_STRING -> ok(FillFromScriptString(info, key, v))
         [] t = CSPFT_TRACER -> ok(FillFromPointer(info, key, v))
         [] t = CSPFT_SOUND_ALIAS_ID -> ok(SetValueForKey(info, key, SoundAliasIdText(v)))
         [] OTHER -> DefaultCase(info)

\* FillFromExtensionField: pure virtual here; the hook of the model sets the key
FillFromExtensionField(info, field, v) == SetValueForKey(info, field.szName, "extension")

\* the values a member of each type takes in the model
MemberValues(t) ==
    CASE t = CSPFT_STRING -> {Val(0, NullPtr), Val(0, ""), Val(0, "abc")}
      [] t \in {CSPFT_STRING_MAX_STRING_CHARS, CSPFT_STRING_MAX_QPATH, CSPFT_STRING_MAX_OSPATH}
            -> {Val(0, ""), Val(0, "abc")}
      [] t = CSPFT_INT -> {Val(0, NullPtr), Val(-7, NullPtr)}
      [] t = CSPFT_UINT -> {Val(0, NullPtr), Val(7, NullPtr)}
      [] t \in {CSPFT_BOOL, CSPFT_QBOOLEAN} -> {Val(0, NullPtr), Val(1, NullPtr)}
      [] t \in {CSPFT_FLOAT, CSPFT_MILLISECONDS} -> {Val(0, NullPtr), Val(1500, NullPtr)}
      [] t = CSPFT_SCRIPT_STRING -> {Val(0, NullPtr), Val(1, NullPtr)}
      [] t = CSPFT_SOUND_ALIAS_ID -> {Val(0, NullPtr), Val(12345, NullPtr), Val(-1, NullPtr)}
      [] t = CSPFT_NUM_BASE_FIELD_TYPES -> {Val(3, NullPtr)}
      [] OTHER -> {Val(0, NullPtr), Val(0, "asset")}

\* the type tags of the model: a negative tag, the base types and the first
\* two extension types
FieldTypes == -1..(CSPFT_NUM_BASE_FIELD_TYPES + 1)

\* if (field.iFieldType < CSPFT_NUM_BASE_FIELD_TYPES)
IsBaseFieldInclusive(field) == field.iFieldType <= CSPFT_NUM_BASE_FIELD_TYPES

IsBaseField(field) == field.iFieldType < CSPFT_NUM_BASE_FIELD_TYPES

\* m_structure is a const void*: the members are read through pointers to
\* const, the structure after a field has been converted is the one before
StructureFieldCleared(struct, index) == [struct EXCEPT ![index] = ZeroValue]

StructureAfterField(struct, index) == struct

Visit(index, route, field) == [index |-> index, route |-> route, field |-> field]

FieldNames == <<"fieldA", "fieldB", "fieldC", "fieldD">>

Field(k, t) == [szName |-> FieldNames[k], iOffset |-> 4 * (k - 1), iFieldType |-> t]

Schemas == UNION {[1..n -> FieldTypes] : n \in 0..MaxFields}

StmtIdle ==
    /\ statementValue =
          [null |-> TRUE, numEntries |-> 0, entries |-> <<>>, supportingData |-> NoSupportingData]
    /\ isBooleanStatement = FALSE
    /\ out = <<>>
    /\ stack = <<>>
    /\ pc = "idle"
    /\ trace = <<>>
    /\ oobRead = FALSE

InitInfoString ==
    /\ StmtIdle
    /\ LoadIdle
    /\ SndIdle
    /\ \E types \in Schemas :
          /\ fields = [k \in 1..Len(types) |-> Field(k, types[k])]
          /\ \E values \in [1..Len(types) -> UNION {MemberValues(t) : t \in FieldTypes}] :
                /\ \A k \in 1..Len(types) : values[k] \in MemberValues(types[k])
                /\ structure = values
          /\ target = [k \in 1..Len(types) |-> ZeroValue]
    /\ infoString = <<>>
    /\ fieldIndex = 0
    /\ visited = <<>>
    /\ cpc = "fill"

\* one iteration of the loop of InfoStringFromStructConverter::FillInfoString
FillInfoString ==
    /\ cpc = "fill"
    /\ fieldIndex < Len(fields)
    /\ LET field == fields[fieldIndex + 1]
           v == structure[fieldIndex + 1]
       IN IF ~(field.iFieldType >= 0)
          THEN /\ cpc' = "aborted"
               /\ UNCHANGED <<structure, infoString, fieldIndex, visited>>
          ELSE IF IsBaseField(field)
          THEN LET filled == FillFromBaseField(infoString, field, v) IN
               /\ infoString' = filled.info
               /\ structure' = StructureAfterField(structure, fieldIndex + 1)
               /\ visited' = Append(visited, Visit(fieldIndex, "base", field))
               /\ IF filled.failed
                  THEN cpc' = "aborted" /\ fieldIndex' = fieldIndex
                  ELSE cpc' = cpc /\ fieldIndex' = fieldIndex + 1
          ELSE /\ infoString' = FillFromExtensionField(infoString, field, v)
               /\ visited' = Append(visited, Visit(fieldIndex, "extension", field))
               /\ fieldIndex' = fieldIndex + 1
               /\ cpc' = cpc
               /\ UNCHANGED structure
    /\ UNCHANGED <<fields, target, stmtVars, loadVars, sndVars>>

\* the loop of FillInfoString ends: the info string is handed to the
\* InfoStringToStructConverter
FillInfoStringEnd ==
    /\ cpc = "fill"
    /\ fieldIndex >= Len(fields)
    /\ cpc' = "convert"
    /\ UNCHANGED <<structure, fields, infoString, target, fieldIndex, visited, stmtVars, loadVars, sndVars>>

\* InfoStringToStructConverter::FillStructure: the body is empty
FillStructure ==
    /\ cpc = "convert"
    /\ target' = target
    /\ cpc' = "done"
    /\ UNCHANGED <<structure, fields, infoString, fieldIndex, visited, stmtVars, loadVars, sndVars>>

NextInfoString ==
    \/ FillInfoString
    \/ FillInfoStringEnd
    \/ FillStructure

SpecInfoString == InitInfoString /\ [][NextInfoString]_vars

(***************************************************************************)
(* The T6 XModel JSON loader.  The JSON document is the record that        *)
(* json::parse and the conversion to JsonXModel make of the stream; an     *)
(* optional member without a value is NullPtr (names) or has = FALSE.      *)
(***************************************************************************)
MaxLods == 2            \* most lods of a JSON document

ASSET_TYPE_PHYSPRESET == "physpreset"
ASSET_TYPE_PHYSCONSTRAINTS == "physconstraints"

\* IAssetLoadingManager::LoadDependency<AssetType>: the info of the asset of
\* that type and name, or null if the manager cannot find it
LoadDependency(assets, type, name) ==
    IF AssetInfo(type, name) \in assets THEN AssetInfo(type, name) ELSE NullAssetInfo

\* if (!physPreset), if (!physConstraints)
DependencyNeverMissing(handle) == FALSE

DependencyMissing(handle) == handle.null

\* std::vector::assign(set.cbegin(), set.cend()): the elements of the set in
\* the order of the set
AssignFromSet(set) ==
    CHOOSE v \in [1..Cardinality(set) -> set] : {v[k] : k \in 1..Cardinality(set)} = set

\* the number of surfaces the lods add to m_surfaces; a lod whose file
\* cannot be loaded adds none
RECURSIVE CountSurfaces(_)
CountSurfaces(lods) ==
    IF lods = <<>> THEN 0
    ELSE (IF Head(lods) = "loaded" THEN 1 ELSE 0) + CountSurfaces(Tail(lods))

JsonNames == {"asset_a"}

JsonDocuments ==
    [shape : {"ok", "noType", "badMember"},
     type : {"xmodel", "material"},
     version : {1, 2},
     lods : SeqsUpTo({"loaded", "missing"}, MaxLods),
     collLod : {[has |-> FALSE, value |-> 0]}
                  \cup {[has |-> TRUE, value |-> c] : c \in -1..MaxLods},
     physPreset : {NullPtr} \cup JsonNames,
     physConstraints : {NullPtr} \cup JsonNames]

AllAssets ==
    {AssetInfo(ASSET_TYPE_PHYSPRESET, "asset_a"),
     AssetInfo(ASSET_TYPE_PHYSCONSTRAINTS, "asset_a")}

\* what the caller's vector holds before the call
StaleDependency == AssetInfo("material", "stale")

InitXModel ==
    /\ StmtIdle
    /\ ConvIdle
    /\ SndIdle
    /\ jXModel \in JsonDocuments
    /\ zoneAssets \in SUBSET AllAssets
    /\ xmodel = EmptyXModel
    /\ m_dependencies = {}
    /\ dependencies \in {<<>>, <<StaleDependency>>}
    /\ loadCalls = <<>>
    /\ loadResult = FALSE
    /\ lpc = "call"

\* T6::LoadXModelAsJson up to the call of loader.Load: the loader is
\* constructed over the local dependenciesSet, and the caller's vector is
\* assigned from that set
LoadXModelAsJson ==
    /\ lpc = "call"
    /\ m_dependencies' = {}
    /\ dependencies' = AssignFromSet(m_dependencies')
    /\ lpc' = "load"
    /\ UNCHANGED <<jXModel, zoneAssets, xmodel, loadCalls, loadResult, stmtVars, convVars, sndVars>>

\* JsonLoader::Load: a document without _type or _version makes at() throw
\* outside the try block; a member of the wrong shape throws inside it
Load ==
    /\ lpc = "load"
    /\ IF jXModel.shape = "noType"
       THEN /\ lpc' = "thrown"
            /\ UNCHANGED loadResult
       ELSE IF jXModel.type # "xmodel" \/ jXModel.version # 1
       THEN /\ loadResult' = FALSE
            /\ lpc' = "done"
       ELSE IF jXModel.shape = "badMember"
       THEN /\ loadResult' = FALSE
            /\ lpc' = "done"
       ELSE /\ lpc' = "create"
            /\ UNCHANGED loadResult
    /\ UNCHANGED <<jXModel, zoneAssets, xmodel, m_dependencies, dependencies, loadCalls,
                   stmtVars, convVars, sndVars>>

\* JsonLoader::CreateXModelFromJson up to the phys preset: the lods (the
\* result of LoadLod is not looked at) and the collision lod
CreateXModelFromJson ==
    /\ lpc = "create"
    /\ LET withLods == [xmodel EXCEPT !.numLods = Len(jXModel.lods),
                                      !.numsurfs = CountSurfaces(jXModel.lods)]
       IN IF jXModel.collLod.has /\ jXModel.collLod.value >= 0
          THEN IF jXModel.collLod.value >= Len(jXModel.lods)
               THEN /\ xmodel' = withLods
                    /\ loadResult' = FALSE
                    /\ lpc' = "done"
               ELSE /\ xmodel' = [withLods EXCEPT !.collLod = jXModel.collLod.value]
                    /\ lpc' = "physPreset"
                    /\ UNCHANGED loadResult
          ELSE /\ xmodel' = [withLods EXCEPT !.collLod = -1]
               /\ lpc' = "physPreset"
               /\ UNCHANGED loadResult
    /\ UNCHANGED <<jXModel, zoneAssets, m_dependencies, dependencies, loadCalls,
                   stmtVars, convVars, sndVars>>

\* CreateXModelFromJson: if (jXModel.physPreset) ... else ...
CreatePhysPreset ==
    /\ lpc = "physPreset"
    /\ IF jXModel.physPreset # NullPtr
       THEN LET physPreset ==
                    LoadDependency(zoneAssets, ASSET_TYPE_PHYSPRESET, jXModel.physPreset)
            IN /\ loadCalls' = Append(loadCalls,
                    [type |-> ASSET_TYPE_PHYSPRESET, name |-> jXModel.physPreset,
                     handle |-> physPreset])
               /\ IF DependencyMissing(physPreset)
                  THEN /\ loadResult' = FALSE
                       /\ lpc' = "done"
                       /\ UNCHANGED <<m_dependencies, xmodel>>
                  ELSE /\ m_dependencies' = m_dependencies \cup {physPreset}
                       /\ xmodel' = [xmodel EXCEPT !.physPreset = physPreset.name]
                       /\ lpc' = "physConstraints"
                       /\ UNCHANGED loadResult
       ELSE /\ xmodel' = [xmodel EXCEPT !.physPreset = NullPtr]
            /\ lpc' = "physConstraints"
            /\ UNCHANGED <<m_dependencies, loadCalls, loadResult>>
    /\ UNCHANGED <<jXModel, zoneAssets, dependencies, stmtVars, convVars, sndVars>>

\* CreateXModelFromJson: if (jXModel.physConstraints) ... else ..., the
\* remaining members, and return true
CreatePhysConstraints ==
    /\ lpc = "physConstraints"
    /\ IF jXModel.physConstraints # NullPtr
       THEN LET physConstraints ==
                    LoadDependency(zoneAssets, ASSET_TYPE_PHYSCONSTRAINTS,
                                   jXModel.physConstraints)
            IN /\ loadCalls' = Append(loadCalls,
                    [type |-> ASSET_TYPE_PHYSCONSTRAINTS, name |-> jXModel.physConstraints,
                     handle |-> physConstraints])
               /\ IF DependencyMissing(physConstraints)
                  THEN /\ loadResult' = FALSE
                       /\ UNCHANGED <<m_dependencies, xmodel>>
                  ELSE /\ m_dependencies' = m_dependencies \cup {physConstraints}
                       /\ xmodel' = [xmodel EXCEPT !.physConstraints = physConstraints.name]
                       /\ loadResult' = TRUE
       ELSE /\ xmodel' = [xmodel EXCEPT !.physConstraints = NullPtr]
            /\ loadResult' = TRUE
            /\ UNCHANGED <<m_dependencies, loadCalls>>
    /\ lpc' = "done"
    /\ UNCHANGED <<jXModel, zoneAssets, dependencies, stmtVars, convVars, sndVars>>

NextXModel ==
    \/ LoadXModelAsJson
    \/ Load
    \/ CreateXModelFromJson
    \/ CreatePhysPreset
    \/ CreatePhysConstraints

SpecXModel == InitXModel /\ [][NextXModel]_vars

(***************************************************************************)
(* The T6 sound bank loader.  A CSV file is the sequence of its rows       *)
(* behind the header; a row is the record of the columns the model looks   *)
(* at (name, file, type).  Rows, alias lists and index slots are counted   *)
(* from 0 as in the source; the sequences of the model start at 1.         *)
(***************************************************************************)
MaxRows == 3            \* most rows of an aliases file
MaxAliases == 4         \* most alias lists of a table handed to LoadSoundAliasIndexList
MaxId == 5              \* largest alias id of such a table

USHRT_MAX == 65535

\* T6::SA_LOADED and ObjConstants::SOUND_LOAD_TYPES
SA_LOADED == 1

SOUND_LOAD_TYPES == <<"unknown", "loaded", "streamed", "primed">>

\* Common::SND_HashName: some hash of the name
SND_HashName(name) ==
    CASE name = "a" -> 7
      [] name = "b" -> 4
      [] name = "f" -> 9
      [] OTHER -> 0

\* GetValueIndex: the first position of the value in the table, 0 for an
\* empty value and for a value the table does not have
GetValueIndex(value, lookupTable) ==
    IF value = "" THEN 0
    ELSE IF \E i \in 1..Len(lookupTable) : lookupTable[i] = value
    THEN (CHOOSE i \in 1..Len(lookupTable) :
             /\ lookupTable[i] = value
             /\ \A j \in 1..(i - 1) : lookupTable[j] # value) - 1
    ELSE 0

CsvRow(name, file, type) == [name |-> name, file |-> file, type |-> type]

\* the while (true) loop of GetAliasSubListCount
RECURSIVE SubListLoop(_, _, _, _)
SubListLoop(startRow, csv, name, count) ==
    IF startRow + count >= Len(csv)
    THEN count
    ELSE LET testName == csv[startRow + count + 1].name IN
         IF testName = "" THEN count
         ELSE IF name # testName THEN count
         ELSE SubListLoop(startRow, csv, name, count + 1)

\* a sub list that ends behind its first row
SubListOfOne(startRow, csv) == IF csv[startRow + 1].name = "" THEN 0 ELSE 1

GetAliasSubListCount(startRow, csv) ==
    LET name == csv[startRow + 1].name IN
    IF name = "" THEN 0 ELSE SubListLoop(startRow, csv, name, 1)

\* a SndAlias after memset(alias, 0, sizeof(SndAlias))
ZeroAlias ==
    [name |-> NullPtr, id |-> 0, assetFileName |-> NullPtr, assetId |-> 0, loadType |-> 0]

\* LoadSoundAlias: the result and the alias
LoadSoundAlias(row) ==
    IF row.name = "" THEN [ok |-> FALSE, alias |-> ZeroAlias]
    ELSE IF row.file = "" THEN [ok |-> FALSE, alias |-> ZeroAlias]
    ELSE [ok |-> TRUE,
          alias |-> [name |-> row.name, id |-> SND_HashName(row.name),
                     assetFileName |-> row.file, assetId |-> SND_HashName(row.file),
                     loadType |-> GetValueIndex(row.type, SOUND_LOAD_TYPES)]]

\* if (loadType == T6::SA_LOADED) (*loadedEntryCount)++; else (*streamedEntryCount)++;
CountLoadedOnly(acc, alias) ==
    IF alias.loadType = SA_LOADED
    THEN [acc EXCEPT !.loadedEntryCount = @ + 1]
    ELSE acc

CountEntry(acc, alias) ==
    IF alias.loadType = SA_LOADED
    THEN [acc EXCEPT !.loadedEntryCount = @ + 1]
    ELSE [acc EXCEPT !.streamedEntryCount = @ + 1]

\* the for loop of LoadSoundAliasList that fills one sub list; acc holds the
\* result so far, the head of the sub list, the two counters and the row
RECURSIVE LoadSubList(_, _, _, _)
LoadSubList(csv, i, subListCount, acc) ==
    IF ~(i < subListCount) THEN acc
    ELSE LET loaded == LoadSoundAlias(csv[acc.row + 1]) IN
         IF ~loaded.ok
         THEN [acc EXCEPT !.ok = FALSE, !.head = Append(@, loaded.alias)]
         ELSE LoadSubList(csv, i + 1, subListCount,
                  [CountEntry(acc, loaded.alias) EXCEPT
                      !.head = Append(@, loaded.alias), !.row = @ + 1])

\* a SndAliasList after memset, and a filled one
ZeroAliasList == [name |-> NullPtr, id |-> 0, head |-> <<>>, count |-> 0, sequence |-> 0]

\* a SndIndexEntry after memset(aliasIndex, 0xFF, ...)
EmptyIndexEntry == [value |-> USHRT_MAX, next |-> USHRT_MAX]

\* if (sndBank->aliasIndex[idx].value == USHRT_MAX)
SlotEmptyAlways(entry) == TRUE

SlotEmpty(entry) == entry.value = USHRT_MAX

\* the walk that stays at the first slot
WalkStays(aliasIndex, idx) == idx

\* while (aliasIndex[idx].next != USHRT_MAX) idx = aliasIndex[idx].next;
RECURSIVE WalkToEnd(_, _)
WalkToEnd(aliasIndex, idx) ==
    IF aliasIndex[idx + 1].next # USHRT_MAX
    THEN WalkToEnd(aliasIndex, aliasIndex[idx + 1].next)
    ELSE idx

\* a probe that gives up after the two neighbours
ProbeNeighbours(aliasIndex, aliasCount, idx, offset) ==
    IF aliasIndex[((idx + offset) % aliasCount) + 1].value = USHRT_MAX
    THEN (idx + offset) % aliasCount
    ELSE IF aliasIndex[((idx + aliasCount - offset) % aliasCount) + 1].value = USHRT_MAX
    THEN (idx + aliasCount - offset) % aliasCount
    ELSE USHRT_MAX

\* the while (true) loop that looks for a free slot: freeIdx, or USHRT_MAX
RECURSIVE ProbeFreeIdx(_, _, _, _)
ProbeFreeIdx(aliasIndex, aliasCount, idx, offset) ==
    IF aliasIndex[((idx + offset) % aliasCount) + 1].value = USHRT_MAX
    THEN (idx + offset) % aliasCount
    ELSE IF aliasIndex[((idx + aliasCount - offset) % aliasCount) + 1].value = USHRT_MAX
    THEN (idx + aliasCount - offset) % aliasCount
    ELSE IF offset + 1 >= aliasCount
    THEN USHRT_MAX
    ELSE ProbeFreeIdx(aliasIndex, aliasCount, idx, offset + 1)

\* assetName.find('.') != std::string::npos; a name is the sequence of its
\* characters
ASSET_TYPE_SOUND == "ASSET_TYPE_SOUND"

HasDot(assetName) == \E k \in 1..Len(assetName) : assetName[k] = "."

\* utils::StringSplit(str, delim).size(): the parts between the delimiters;
\* whether empty parts are kept is left open
StringSplitSizes(str, delim) ==
    LET parts == {k \in 1..Len(str) : str[k] # delim /\ (k = 1 \/ str[k - 1] = delim)}
        delims == {k \in 1..Len(str) : str[k] = delim}
    IN Cardinality(parts)..(Cardinality(delims) + 1)

AssetNames == {<<"m", "p", "l", ".", "a", "l", "l">>, <<"m", "p", "l">>, <<"m", ".">>}

\* the names for which the search path has a soundbank/ducks/<name>.duk
\* file, and those of them whose file is not a JSON document of a duck
DukFiles == {"d", "x"}

MalformedDukFiles == {"x"}

AliasRows ==
    {CsvRow(name, file, type) :
        name \in {"", "a", "b"}, file \in {"", "f"}, type \in {"loaded", "streamed"}}

NameRows(names) == {CsvRow(name, "", "") : name \in names}

\* the alias tables handed to LoadSoundAliasIndexList directly
AliasTables ==
    {[k \in 1..Len(ids) |-> [ZeroAliasList EXCEPT !.id = ids[k], !.count = 1]] :
        ids \in SeqsUpTo(0..MaxId, MaxAliases)}

InitSoundBank ==
    /\ StmtIdle
    /\ ConvIdle
    /\ LoadIdle
    /\ \/ \* LoadFromRaw over the aliases files of the model
          /\ sndInput \in
                [direct : {FALSE},
                 assetName : {<<"m", "p", "l", ".", "a", "l", "l">>},
                 aliasFile : {OpenFile(rows) : rows \in SeqsUpTo(AliasRows, MaxRows)},
                 radverbFile : {ClosedFile},
                 duckListFile : {ClosedFile}]
          /\ sndBank = ZeroSndBank
          /\ spc = "call"
       \/ \* LoadFromRaw over the asset names and the other files of the model
          /\ sndInput \in
                [direct : {FALSE},
                 assetName : AssetNames,
                 aliasFile : {ClosedFile, OpenFile(<<>>),
                              OpenFile(<<CsvRow("a", "f", "loaded")>>),
                              OpenFile(<<CsvRow("a", "", "loaded")>>)},
                 radverbFile : {ClosedFile}
                     \cup {OpenFile(rows) : rows \in SeqsUpTo(NameRows({"", "r"}), 1)},
                 duckListFile : {ClosedFile}
                     \cup {OpenFile(rows) : rows \in SeqsUpTo(NameRows({"", "d", "e", "x"}), 1)}]
          /\ sndBank = ZeroSndBank
          /\ spc = "call"
       \/ \* LoadSoundAliasIndexList over the alias tables of the model
          /\ sndInput = [direct |-> TRUE, assetName |-> <<>>, aliasFile |-> ClosedFile,
                         radverbFile |-> ClosedFile, duckListFile |-> ClosedFile]
          /\ \E table \in AliasTables :
                sndBank = [ZeroSndBank EXCEPT !.aliasCount = Len(table), !.alias = table]
          /\ spc = "index"
    /\ sndLocals = ZeroSndLocals
    /\ addedAssets = <<>>
    /\ sndResult = FALSE

\* AssetLoaderSoundBank::LoadFromRaw up to the call of LoadSoundAliasList
LoadFromRaw ==
    /\ spc = "call"
    /\ IF ~HasDot(sndInput.assetName)
       THEN /\ sndResult' = FALSE
            /\ spc' = "done"
            /\ UNCHANGED <<sndBank, sndLocals>>
       ELSE IF ~sndInput.aliasFile.open
       THEN /\ sndResult' = FALSE
            /\ spc' = "done"
            /\ UNCHANGED <<sndBank, sndLocals>>
       ELSE /\ sndBank' = ZeroSndBank
            /\ sndLocals' = [sndLocals EXCEPT !.loadedEntryCount = 0,
                                              !.streamedEntryCount = 0]
            /\ spc' = "aliasList"
            /\ UNCHANGED sndResult
    /\ UNCHANGED <<sndInput, addedAssets, stmtVars, convVars, loadVars>>

\* LoadSoundAliasList up to its while loop
LoadSoundAliasList ==
    /\ spc = "aliasList"
    /\ LET aliasCsv == sndInput.aliasFile.rows IN
       IF Len(aliasCsv) > 0
       THEN /\ sndBank' = [sndBank EXCEPT
                              !.aliasCount = Len(aliasCsv),
                              !.alias = [k \in 1..Len(aliasCsv) |-> ZeroAliasList]]
            /\ sndLocals' = [sndLocals EXCEPT !.row = 0, !.listIndex = 0]
            /\ spc' = "lists"
       ELSE /\ spc' = "reverbs"
            /\ UNCHANGED <<sndBank, sndLocals>>
    /\ UNCHANGED <<sndInput, addedAssets, sndResult, stmtVars, convVars, loadVars>>

\* one iteration of the while loop of LoadSoundAliasList: one sub list
LoadSoundAliasSubList ==
    /\ spc = "lists"
    /\ sndLocals.row < sndBank.aliasCount
    /\ LET aliasCsv == sndInput.aliasFile.rows
           listIndex == sndLocals.listIndex
           subListCount == GetAliasSubListCount(sndLocals.row, aliasCsv)
       IN IF subListCount < 1
          THEN /\ sndResult' = FALSE
               /\ spc' = "done"
               /\ UNCHANGED <<sndBank, sndLocals>>
          ELSE LET filled == LoadSubList(aliasCsv, 0, subListCount,
                                 [ok |-> TRUE, head |-> <<>>, row |-> sndLocals.row,
                                  loadedEntryCount |-> sndLocals.loadedEntryCount,
                                  streamedEntryCount |-> sndLocals.streamedEntryCount])
                   counted == [sndLocals EXCEPT
                                  !.row = filled.row,
                                  !.loadedEntryCount = filled.loadedEntryCount,
                                  !.streamedEntryCount = filled.streamedEntryCount]
               IN IF ~filled.ok
                  THEN /\ sndBank' = [sndBank EXCEPT
                                         !.alias[listIndex + 1].count = subListCount,
                                         !.alias[listIndex + 1].head = filled.head]
                       /\ sndLocals' = counted
                       /\ sndResult' = FALSE
                       /\ spc' = "done"
                  ELSE /\ sndBank' = [sndBank EXCEPT
                                         !.alias[listIndex + 1] =
                                             [name |-> filled.head[1].name,
                                              id |-> filled.head[1].id,
                                              head |-> filled.head,
                                              count |-> subListCount,
                                              sequence |-> 0]]
                       /\ sndLocals' = [counted EXCEPT !.listIndex = listIndex + 1]
                       /\ UNCHANGED <<sndResult, spc>>
    /\ UNCHANGED <<sndInput, addedAssets, stmtVars, convVars, loadVars>>

\* the while loop of LoadSoundAliasList has ended: the alias table is cut
\* to the number of lists
LoadSoundAliasListEnd ==
    /\ spc = "lists"
    /\ ~(sndLocals.row < sndBank.aliasCount)
    /\ sndBank' = IF sndLocals.listIndex # sndBank.aliasCount
                  THEN [sndBank EXCEPT
                           !.aliasCount = sndLocals.listIndex,
                           !.alias = SubSeq(sndBank.alias, 1, sndLocals.listIndex)]
                  ELSE sndBank
    /\ spc' = "index"
    /\ UNCHANGED <<sndInput, sndLocals, addedAssets, sndResult, stmtVars, convVars, loadVars>>

\* LoadSoundAliasIndexList up to its first loop
LoadSoundAliasIndexList ==
    /\ spc = "index"
    /\ sndBank' = [sndBank EXCEPT
                      !.aliasIndex = [k \in 1..sndBank.aliasCount |-> EmptyIndexEntry]]
    /\ sndLocals' = [sndLocals EXCEPT
                        !.setAliasIndexList = [k \in 1..sndBank.aliasCount |-> FALSE],
                        !.i = 0]
    /\ spc' = "first"
    /\ UNCHANGED <<sndInput, addedAssets, sndResult, stmtVars, convVars, loadVars>>

\* one iteration of the first loop of LoadSoundAliasIndexList, or its end
IndexFirstPass ==
    /\ spc = "first"
    /\ LET i == sndLocals.i IN
       IF i < sndBank.aliasCount
       THEN LET idx == sndBank.alias[i + 1].id % sndBank.aliasCount IN
            IF SlotEmpty(sndBank.aliasIndex[idx + 1])
            THEN /\ sndBank' = [sndBank EXCEPT
                                   !.aliasIndex[idx + 1] = [value |-> i, next |-> USHRT_MAX]]
                 /\ sndLocals' = [sndLocals EXCEPT
                                     !.setAliasIndexList[i + 1] = TRUE, !.i = i + 1]
                 /\ UNCHANGED spc
            ELSE /\ sndLocals' = [sndLocals EXCEPT !.i = i + 1]
                 /\ UNCHANGED <<sndBank, spc>>
       ELSE /\ sndLocals' = [sndLocals EXCEPT !.i = 0]
            /\ spc' = "second"
            /\ UNCHANGED sndBank
    /\ UNCHANGED <<sndInput, addedAssets, sndResult, stmtVars, convVars, loadVars>>

\* one iteration of the second loop of LoadSoundAliasIndexList, or its
\* return of true
IndexSecondPass ==
    /\ spc = "second"
    /\ LET i == sndLocals.i IN
       IF i < sndBank.aliasCount
       THEN IF sndLocals.setAliasIndexList[i + 1]
            THEN /\ sndLocals' = [sndLocals EXCEPT !.i = i + 1]
                 /\ UNCHANGED <<sndBank, sndResult, spc>>
            ELSE LET idx == WalkToEnd(sndBank.aliasIndex,
                                      sndBank.alias[i + 1].id % sndBank.aliasCount)
                     freeIdx == ProbeFreeIdx(sndBank.aliasIndex, sndBank.aliasCount, idx, 1)
                 IN IF freeIdx = USHRT_MAX
                    THEN /\ sndResult' = FALSE
                         /\ spc' = "done"
                         /\ UNCHANGED <<sndBank, sndLocals>>
                    ELSE /\ sndBank' = [sndBank EXCEPT
                                           !.aliasIndex =
                                               [[@ EXCEPT ![idx + 1].next = freeIdx]
                                                   EXCEPT ![freeIdx + 1] =
                                                       [value |-> i, next |-> USHRT_MAX]]]
                         /\ sndLocals' = [sndLocals EXCEPT
                                             !.setAliasIndexList[i + 1] = TRUE,
                                             !.i = i + 1]
                         /\ UNCHANGED <<sndResult, spc>>
       ELSE /\ sndResult' = IF sndInput.direct THEN TRUE ELSE sndResult
            /\ spc' = IF sndInput.direct THEN "done" ELSE "reverbs"
            /\ UNCHANGED <<sndBank, sndLocals>>
    /\ UNCHANGED <<sndInput, addedAssets, stmtVars, convVars, loadVars>>

\* a ducklist row whose .duk file is always found
DuckRowFound(name) == "true"

\* one iteration of the for loop of LoadSoundDuckList: "true" when the row
\* is loaded, "false" when the function returns false, "thrown" when
\* nlohmann::json::parse or get leaves it with an exception
DuckRow(name) ==
    IF name = "" THEN "false"
    ELSE IF name \notin DukFiles THEN "false"
    ELSE IF name \in MalformedDukFiles THEN "thrown"
    ELSE "true"

\* one iteration of the for loop of LoadSoundRadverbs: FALSE when the
\* function returns false
RadverbRow(name) == name # ""

\* the outcome of a for loop over the rows: that of the first row that is
\* not loaded, "true" when there is none
RECURSIVE RowsLoop(_, _)
RowsLoop(outcomes, i) ==
    IF ~(i < Len(outcomes)) THEN "true"
    ELSE IF outcomes[i + 1] # "true" THEN outcomes[i + 1]
    ELSE RowsLoop(outcomes, i + 1)

\* LoadFromRaw: the radverbs file, if there is one
LoadSoundRadverbs ==
    /\ spc = "reverbs"
    /\ LET radverbFile == sndInput.radverbFile IN
       IF radverbFile.open
       THEN IF Len(radverbFile.rows) > 0
            THEN LET outcome == RowsLoop([k \in 1..Len(radverbFile.rows) |->
                                             IF RadverbRow(radverbFile.rows[k].name)
                                             THEN "true" ELSE "false"], 0)
                 IN /\ sndBank' = [sndBank EXCEPT !.radverbCount = Len(radverbFile.rows)]
                    /\ IF outcome = "true"
                       THEN /\ spc' = "ducks"
                            /\ UNCHANGED sndResult
                       ELSE /\ sndResult' = FALSE
                            /\ spc' = "done"
            ELSE /\ spc' = "ducks"
                 /\ UNCHANGED <<sndBank, sndResult>>
       ELSE /\ spc' = "ducks"
            /\ UNCHANGED <<sndBank, sndResult>>
    /\ UNCHANGED <<sndInput, sndLocals, addedAssets, stmtVars, convVars, loadVars>>

\* LoadFromRaw: the ducklist file, if there is one
LoadSoundDuckList ==
    /\ spc = "ducks"
    /\ LET duckListFile == sndInput.duckListFile IN
       IF duckListFile.open
       THEN IF Len(duckListFile.rows) > 0
            THEN LET outcome == RowsLoop([k \in 1..Len(duckListFile.rows) |->
                                             DuckRow(duckListFile.rows[k].name)], 0)
                 IN /\ sndBank' = [sndBank EXCEPT !.duckCount = Len(duckListFile.rows)]
                    /\ IF outcome = "true"
                       THEN /\ spc' = "register"
                            /\ UNCHANGED sndResult
                       ELSE IF outcome = "false"
                       THEN /\ sndResult' = FALSE
                            /\ spc' = "done"
                       ELSE /\ spc' = "thrown"
                            /\ UNCHANGED sndResult
            ELSE /\ spc' = "register"
                 /\ UNCHANGED <<sndBank, sndResult>>
       ELSE /\ spc' = "register"
            /\ UNCHANGED <<sndBank, sndResult>>
    /\ UNCHANGED <<sndInput, sndLocals, addedAssets, stmtVars, convVars, loadVars>>

\* LoadFromRaw from the loaded asset bank to manager->AddAsset and return
\* true; sndBankLocalization.at(1) throws when the split has one part
AddAsset ==
    /\ spc = "register"
    /\ \E size \in StringSplitSizes(sndInput.assetName, ".") :
          IF (sndLocals.loadedEntryCount > 0 \/ sndLocals.streamedEntryCount > 0) /\ size < 2
          THEN /\ spc' = "thrown"
               /\ UNCHANGED <<sndBank, addedAssets, sndResult>>
          ELSE /\ sndBank' = IF sndLocals.loadedEntryCount > 0
                             THEN [sndBank EXCEPT !.entryCount = sndLocals.loadedEntryCount]
                             ELSE sndBank
               /\ addedAssets' = Append(addedAssets,
                                        [type |-> ASSET_TYPE_SOUND,
                                         name |-> sndInput.assetName])
               /\ sndResult' = TRUE
               /\ spc' = "done"
    /\ UNCHANGED <<sndInput, sndLocals, stmtVars, convVars, loadVars>>

NextSoundBank ==
    \/ LoadFromRaw
    \/ LoadSoundAliasList
    \/ LoadSoundAliasSubList
    \/ LoadSoundAliasListEnd
    \/ LoadSoundAliasIndexList
    \/ IndexFirstPass
    \/ IndexSecondPass
    \/ LoadSoundRadverbs
    \/ LoadSoundDuckList
    \/ AddAsset

SpecSoundBank == InitSoundBank /\ [][NextSoundBank]_vars


(***************************************************************************)
(* Definitions used to state the properties.                               *)
(***************************************************************************)
RECURSIVE Text(_)
Text(pieces) == IF pieces = <<>> THEN "" ELSE Head(pieces) \o Text(Tail(pieces))

Prefix == Indent \o WriteKey(PropertyKey)

\* the pieces written after the key
Body == SubSeq(out, Len(Prefix) + 1, Len(out))

Wellformed == ~statementValue.null /\ statementValue.numEntries >= 0

Entries == statementValue.entries

IsOperandEntry(e) == e.type = EET_OPERAND
IsFunctionOp(e) == e.type = EET_OPERATOR /\ e.op >= OP_COUNT

\* The depth counter of the matching-close rule after entry q, counted from
\* an opening at p: 1, plus one per left parenthesis or function operator,
\* minus one per right parenthesis.
DepthChange(e) ==
    IF e.type # EET_OPERATOR THEN 0
    ELSE IF e.op = OP_LEFTPAREN \/ e.op >= OP_COUNT THEN 1
    ELSE IF e.op = OP_RIGHTPAREN THEN -1
    ELSE 0

RECURSIVE DepthAfter(_, _)
DepthAfter(p, q) ==
    IF q <= p THEN 1 ELSE DepthAfter(p, q - 1) + DepthChange(EntryAt(statementValue, q))

ClosingPositions(p) ==
    {q \in (p + 1)..(statementValue.numEntries - 1) : DepthAfter(p, q) = 0}

Events(kinds) == {i \in 1..Len(trace) : trace[i].kind \in kinds}

TokenKinds == {"operand", "operator", "open"}

EventEntry(i) == EntryAt(statementValue, trace[i].pos)

\* the token rendered before token i in the same entry range, or 0
PrevToken(i) ==
    LET before == {j \in Events(TokenKinds) : j < i /\ trace[j].range = trace[i].range}
    IN IF before = {} THEN 0 ELSE CHOOSE j \in before : \A k \in before : k <= j

\* the close event of the open event i, or 0
CloseOf(i) ==
    LET closes == {j \in Events({"close"}) : trace[j].pos = trace[i].pos}
    IN IF closes = {} THEN 0 ELSE CHOOSE j \in closes : TRUE

\* the end of the entry range that starts at startOffset
RangeEnd(startOffset) ==
    IF startOffset = 0
    THEN statementValue.numEntries
    ELSE FindStatementClosingParenthesis(statementValue, startOffset - 1)

\* after the group opened by event i the enclosing range goes on with the
\* entry behind the closing position, if the range has one
ContinuesAfter(i) ==
    (pc = "done" /\ trace[i].ret + 1 < RangeEnd(trace[i].range))
        => \E j \in Events(TokenKinds) :
              /\ j > i
              /\ trace[j].pos = trace[i].ret + 1
              /\ trace[j].range = trace[i].range

(***************************************************************************)
(* C1: FindStatementClosingParenthesis(statement, p) is the smallest q > p *)
(* at which the depth counter (1 after p, +1 for a left parenthesis or an  *)
(* operator >= OP_COUNT, -1 for a right parenthesis, unchanged otherwise)  *)
(* reaches 0: for every p of the statement and for every search that the   *)
(* serializer made.  [+, )] and p = 0 give 1; with a nested left           *)
(* parenthesis the first right parenthesis is skipped.  The statement      *)
(* never changes, so the positions are gone through once, before the first *)
(* step.                                                                   *)
(***************************************************************************)
C1_ClosingIsFirstDepthZero ==
    Wellformed =>
        /\ pc = "call" =>
           \A p \in 0..(statementValue.numEntries - 1) :
              ClosingPositions(p) # {} =>
                  /\ FindStatementClosingParenthesis(statementValue, p) \in ClosingPositions(p)
                  /\ \A q \in ClosingPositions(p) :
                        FindStatementClosingParenthesis(statementValue, p) <= q
        /\ \A i \in Events({"open"}) :
              ClosingPositions(trace[i].pos) # {} =>
                  /\ trace[i].ret \in ClosingPositions(trace[i].pos)
                  /\ \A q \in ClosingPositions(trace[i].pos) : trace[i].ret <= q
        /\ Entries = <<Op(OP_ADD), Op(OP_RIGHTPAREN)>> =>
              FindStatementClosingParenthesis(statementValue, 0) = 1
        /\ Entries = <<Op(OP_ADD), Op(OP_LEFTPAREN), Op(OP_RIGHTPAREN), Op(OP_RIGHTPAREN)>> =>
              FindStatementClosingParenthesis(statementValue, 0) = 3

\* the serializer matched a function at 0 with the second right parenthesis
C1_Witness ==
    /\ Entries = <<Op(EXP_FUNC_INT), Op(EXP_FUNC_INT), Op(OP_RIGHTPAREN), Op(OP_RIGHTPAREN)>>
    /\ \E i \in Events({"open"}) : trace[i].pos = 0 /\ trace[i].ret = 3

(***************************************************************************)
(* C2 as stated: a function operator (code >= OP_COUNT), two operands and  *)
(* a right parenthesis are written as functionName(operand1, operand2),    *)
(* the operands separated by a comma and a space.                          *)
(***************************************************************************)
FunctionCallShape ==
    /\ Wellformed
    /\ ~isBooleanStatement
    /\ statementValue.numEntries = 4
    /\ IsFunctionOp(Entries[1]) /\ ~IsStaticDvar(Entries[1].op)
    /\ IsOperandEntry(Entries[2])
    /\ IsOperandEntry(Entries[3])
    /\ Entries[4] = Op(OP_RIGHTPAREN)

C2_CommaSeparated ==
    (pc = "done" /\ FunctionCallShape) =>
        Text(Body) = g_expFunctionNames[Entries[1].op + 1] \o "("
                        \o Text(OperandText(statementValue, Entries[2])) \o ", "
                        \o Text(OperandText(statementValue, Entries[3])) \o ");\n"

(***************************************************************************)
(* C2 amended: a function operator (code >= OP_COUNT, not a static dvar    *)
(* accessor), two operands and a right parenthesis are written as          *)
(* functionName(operand1 operand2): the name, a synthesized "(", the two   *)
(* operands separated by one space, and ")".  A comma is written only for  *)
(* an OP_COMMA entry between the operands.                                 *)
(***************************************************************************)
C2_SpaceSeparated ==
    /\ (pc = "done" /\ FunctionCallShape) =>
          Text(Body) = g_expFunctionNames[Entries[1].op + 1] \o "("
                          \o Text(OperandText(statementValue, Entries[2])) \o " "
                          \o Text(OperandText(statementValue, Entries[3])) \o ");\n"
    /\ (/\ pc = "done"
        /\ Wellformed
        /\ ~isBooleanStatement
        /\ Entries = <<Op(EXP_FUNC_INT), Operand(VAL_INT, 0), Op(OP_COMMA), Operand(VAL_INT, 1)>>)
          => Text(Body) = "int(0, 1);\n"

C2_Witness ==
    /\ pc = "done"
    /\ FunctionCallShape
    /\ Text(Body) = "int(0 1);\n"

(***************************************************************************)
(* C3: for every statement with numEntries >= 0, whatever its entries, the *)
(* serializer runs on without a failing assertion: every active call of    *)
(* WriteStatementEntryRange has startOffset <= endOffset <= numEntries,    *)
(* every closing-parenthesis search starts at a position < numEntries,     *)
(* and until the property line is finished a next step exists.             *)
(***************************************************************************)
C3_NoAssertionFails ==
    Wellformed =>
        /\ pc # "aborted"
        /\ \A k \in 1..Len(stack) :
              RangePreconditions(statementValue, stack[k].startOffset, stack[k].endOffset)
        /\ \A i \in Events({"open"}) :
              FindPreconditions(statementValue, trace[i].pos)
        /\ pc # "done" => ENABLED Next
        /\ pc = "done" => (Len(out) > 0 /\ out[Len(out)] = ";\n")

\* a statement with an unclosed parenthesis, a closing one too many, an invalid
\* function handle or an invalid dvar index was written to the end
C3_Witness ==
    /\ pc = "done"
    /\ Wellformed
    /\ \/ Entries = <<Op(OP_LEFTPAREN), Op(OP_LEFTPAREN), Op(EXP_FUNC_INT), Op(OP_LEFTPAREN)>>
       \/ Entries = <<Op(OP_RIGHTPAREN), Operand(VAL_FUNCTION, 300),
                      Op(EXP_FUNC_STATIC_DVAR_INT)>>

(***************************************************************************)
(* C4: a search that runs off the end of the entries without reaching      *)
(* depth 0 returns numEntries; every result lies in p+1..numEntries; and   *)
(* the serializer writes the closing ")" of every opening, the unmatched   *)
(* ones included.                                                          *)
(***************************************************************************)
C4_UnmatchedClosesAtEnd ==
    Wellformed =>
        /\ pc = "call" =>
           \A p \in 0..(statementValue.numEntries - 1) :
              LET q == FindStatementClosingParenthesis(statementValue, p) IN
              /\ q \in (p + 1)..statementValue.numEntries
              /\ ClosingPositions(p) = {} => q = statementValue.numEntries
        /\ \A i \in Events({"open"}) :
              /\ trace[i].ret \in (trace[i].pos + 1)..statementValue.numEntries
              /\ ClosingPositions(trace[i].pos) = {} =>
                    trace[i].ret = statementValue.numEntries
              /\ pc = "done" =>
                    /\ CloseOf(i) # 0
                    /\ trace[CloseOf(i)].at > trace[i].at
                    /\ out[trace[CloseOf(i)].at] = ")"

\* an unmatched ( and an unmatched function were both closed at the end
C4_Witness ==
    /\ pc = "done"
    /\ Entries = <<Op(OP_LEFTPAREN), Operand(VAL_INT, 0), Op(EXP_FUNC_INT), Operand(VAL_INT, 1)>>
    /\ ~isBooleanStatement
    /\ Text(Body) = "(0 int(1));\n"

\* where the text of token i starts in out, behind the space if it has one
TextStart(i) == trace[i].at + (IF out[trace[i].at] = " " THEN 1 ELSE 0)

\* the pieces between the parentheses of the static dvar opened by event i
StaticDvarInner(i) ==
    SubSeq(out, TextStart(i) + 2, trace[CloseOf(i)].at - 1)

\* the name written for the static dvar opened by event i
StaticDvarWritten(i) == out[TextStart(i)]

StaticDvarEvents ==
    {i \in Events({"open"}) :
        /\ IsStaticDvar(EventEntry(i).op)
        /\ trace[i].pos + 1 < statementValue.numEntries}

NextEntry(i) == EntryAt(statementValue, trace[i].pos + 1)

IsIntOperand(e) == e.type = EET_OPERAND /\ e.dataType = VAL_INT

StaticDvarNames ==
    [op \in EXP_FUNC_STATIC_DVAR_INT..EXP_FUNC_STATIC_DVAR_STRING |->
        CASE op = EXP_FUNC_STATIC_DVAR_INT -> "dvarint"
          [] op = EXP_FUNC_STATIC_DVAR_BOOL -> "dvarbool"
          [] op = EXP_FUNC_STATIC_DVAR_FLOAT -> "dvarfloat"
          [] OTHER -> "dvarstring"]

IndexOutOfRange(e) ==
    \/ statementValue.supportingData.null
    \/ statementValue.supportingData.staticDvarsNull
    \/ e.val < 0
    \/ e.val >= statementValue.supportingData.numStaticDvars

(***************************************************************************)
(* C5: a static dvar accessor followed by an integer operand has           *)
(* #INVALID_DVAR_INDEX between its parentheses exactly when the index is   *)
(* negative or >= numStaticDvars or there is no static dvar table;         *)
(* [dvarint(static), out-of-range int, )] is written as                    *)
(* dvarint(#INVALID_DVAR_INDEX), and the entries behind the matched close  *)
(* are written too.                                                        *)
(***************************************************************************)
C5_InvalidDvarIndex ==
    Wellformed =>
        /\ \A i \in StaticDvarEvents :
              IsIntOperand(NextEntry(i)) =>
                  /\ StaticDvarWritten(i) = StaticDvarNames[EventEntry(i).op]
                  /\ out[TextStart(i) + 1] = "("
                  /\ (StaticDvarInner(i) = <<"#INVALID_DVAR_INDEX">>)
                        <=> IndexOutOfRange(NextEntry(i))
                  /\ "#INVALID_DVAR_OPERAND" \notin
                        {StaticDvarInner(i)[k] : k \in 1..Len(StaticDvarInner(i))}
                  /\ ContinuesAfter(i)
        /\ (/\ pc = "done"
            /\ ~isBooleanStatement
            /\ statementValue.numEntries = 3
            /\ Entries[1] = Op(EXP_FUNC_STATIC_DVAR_INT)
            /\ IsIntOperand(Entries[2]) /\ IndexOutOfRange(Entries[2])
            /\ Entries[3] = Op(OP_RIGHTPAREN))
              => Text(Body) = "dvarint(#INVALID_DVAR_INDEX);\n"

\* an index beyond the table gave the sentinel and the + behind the close was written
C5_Witness ==
    /\ pc = "done"
    /\ ~isBooleanStatement
    /\ Entries = <<Op(EXP_FUNC_STATIC_DVAR_INT), Operand(VAL_INT, 1), Op(OP_RIGHTPAREN),
                   Op(OP_ADD)>>
    /\ Text(Body) = "dvarint(#INVALID_DVAR_INDEX) +;\n"

(***************************************************************************)
(* C6: a static dvar accessor whose following entry exists and is not an   *)
(* integer operand (an operator, or a float, string or function operand)   *)
(* is written as dvarint|dvarbool|dvarfloat|dvarstring                     *)
(* (#INVALID_DVAR_OPERAND), and the entries behind the matched close are   *)
(* written too.                                                            *)
(***************************************************************************)
C6_InvalidDvarOperand ==
    Wellformed =>
        \A i \in StaticDvarEvents :
            ~IsIntOperand(NextEntry(i)) =>
                /\ StaticDvarWritten(i) = StaticDvarNames[EventEntry(i).op]
                /\ out[TextStart(i) + 1] = "("
                /\ StaticDvarInner(i) = <<"#INVALID_DVAR_OPERAND">>
                /\ out[trace[CloseOf(i)].at] = ")"
                /\ ContinuesAfter(i)

\* a string operand behind dvarfloat, and the entry behind the close was written
C6_Witness ==
    /\ pc = "done"
    /\ Entries = <<Op(EXP_FUNC_STATIC_DVAR_FLOAT), Operand(VAL_STRING, 1), Op(OP_RIGHTPAREN)>>
    /\ Text(Body) = "dvarfloat(#INVALID_DVAR_OPERAND);\n"

FirstIsLeftParen ==
    /\ statementValue.numEntries >= 1
    /\ Entries[1].type = EET_OPERATOR
    /\ Entries[1].op = OP_LEFTPAREN

(***************************************************************************)
(* C7: in boolean-guard mode the key is followed by "when"; the expression *)
(* follows at once when entry 0 is the operator OP_LEFTPAREN, and after    *)
(* exactly one space in every other case (an operand, another operator, a  *)
(* function, no entry at all).  Without guard mode no "when" is written.   *)
(***************************************************************************)
C7_WhenPrefix ==
    (Wellformed /\ pc # "call") =>
        IF isBooleanStatement
        THEN /\ Len(Body) >= 1
             /\ Body[1] = "when"
             /\ IF FirstIsLeftParen
                THEN Len(Body) >= 2 => Body[2] = "("
                ELSE /\ Len(Body) >= 2
                     /\ Body[2] = " "
                     /\ Len(Body) >= 3 => Body[3] # " "
             /\ \A k \in 2..Len(Body) : Body[k] # "when"
        ELSE \A k \in 1..Len(Body) : Body[k] # "when"

\* both forms of the guard were written to the end
C7_Witness ==
    /\ pc = "done"
    /\ isBooleanStatement
    /\ \/ /\ Entries = <<Op(OP_LEFTPAREN), Operand(VAL_INT, 1), Op(OP_RIGHTPAREN)>>
          /\ Text(Body) = "when(1);\n"
       \/ /\ Entries = <<Op(EXP_FUNC_INT), Operand(VAL_INT, 1), Op(OP_RIGHTPAREN)>>
          /\ Text(Body) = "when int(1);\n"

PrevIsNeg(i) ==
    /\ trace[PrevToken(i)].kind = "operator"
    /\ EventEntry(PrevToken(i)).op = OP_NEG

\* exactly one space was written before the text of token i
OneSpaceBefore(i) ==
    /\ out[trace[i].at] = " "
    /\ out[trace[i].at + 1] # " "
    /\ out[trace[i].at - 1] # " "

NoSpaceBefore(i) == out[trace[i].at] # " "

(***************************************************************************)
(* C8: within one entry range, an ordinary operator that is not the first  *)
(* token of the range is preceded by exactly one space, and by none when   *)
(* the token before it was OP_NEG or when it is OP_COMMA; an operand is    *)
(* preceded by exactly one space, and by none when the token before it was *)
(* OP_NEG.                                                                 *)
(***************************************************************************)
C8_TokenSpacing ==
    Wellformed =>
        \A i \in Events({"operator", "operand"}) :
            PrevToken(i) # 0 =>
                IF \/ PrevIsNeg(i)
                   \/ (trace[i].kind = "operator" /\ EventEntry(i).op = OP_COMMA)
                THEN NoSpaceBefore(i)
                ELSE OneSpaceBefore(i)

\* a comma, an operand behind a negation and an operator behind an operand
C8_Witness ==
    /\ pc = "done"
    /\ ~isBooleanStatement
    /\ Entries = <<Operand(VAL_INT, 0), Op(OP_COMMA), Op(OP_NEG), Operand(VAL_INT, 1)>>
    /\ Text(Body) = "0, !1;\n"

FunctionOperandEvents ==
    {i \in Events({"operand"}) : EventEntry(i).dataType = VAL_FUNCTION}

\* the indices of the function table that hold the handle
TableIndices(handle) ==
    IF statementValue.supportingData.null \/ statementValue.supportingData.functionsNull
    THEN {}
    ELSE {k \in 0..(statementValue.supportingData.totalFunctions - 1) :
             statementValue.supportingData.functions[k + 1] = handle}

(***************************************************************************)
(* C9: a function operand is written as FUNC_<i>, i the smallest index of  *)
(* the function table that holds the operand's handle, and as INVALID_FUNC *)
(* exactly when no index holds it (or there is no supporting data or no    *)
(* table); the cursor then stands one entry further.                       *)
(***************************************************************************)
C9_FunctionOperand ==
    Wellformed =>
        \A i \in FunctionOperandEvents :
            LET found == TableIndices(EventEntry(i).val) IN
            /\ found = {} <=> out[TextStart(i)] = "INVALID_FUNC"
            /\ found # {} =>
                  \E k \in found :
                      /\ \A m \in found : k <= m
                      /\ out[TextStart(i)] = "FUNC_"
                      /\ out[TextStart(i) + 1] = ToString(k)
            /\ (i = Len(trace) /\ pc = "range") =>
                  /\ Top.startOffset = trace[i].range
                  /\ Top.currentPos = trace[i].pos + 1

\* a handle that the table holds at 1 and 2, and a handle it does not hold
C9_Witness ==
    /\ pc = "done"
    /\ Entries = <<Operand(VAL_FUNCTION, 200), Operand(VAL_FUNCTION, 300)>>
    /\ statementValue.supportingData = FullSupportingData
    /\ Text(Body) = "FUNC_1 INVALID_FUNC;\n"

LosslessTypes == {CSPFT_STRING, CSPFT_INT, CSPFT_FLOAT, CSPFT_BOOL, CSPFT_MILLISECONDS}

\* two members hold the same value; a null string and an empty string count
\* as the same
SameMember(a, b) ==
    /\ a.i = b.i
    /\ (IF a.s = NullPtr THEN "" ELSE a.s) = (IF b.s = NullPtr THEN "" ELSE b.s)

(***************************************************************************)
(* C10: for a schema of STRING, INT, FLOAT, BOOL and MILLISECONDS fields,  *)
(* FillInfoString followed by FillStructure into a zero-initialized        *)
(* structure gives a structure equal to the original in every field of the *)
(* schema.                                                                 *)
(***************************************************************************)
C10_RoundTrip ==
    (/\ cpc = "done"
     /\ \A k \in 1..Len(fields) : fields[k].iFieldType \in LosslessTypes)
        => \A k \in 1..Len(fields) : SameMember(target[k], structure[k])

\* the assets the caller's dependencies vector holds
ReturnedDependencies == {dependencies[k] : k \in 1..Len(dependencies)}

(***************************************************************************)
(* C11: after LoadXModelAsJson has returned true, the caller's             *)
(* dependencies vector contains every asset for which LoadDependency       *)
(* returned non-null during that load.                                     *)
(***************************************************************************)
C11_ResolvedReturned ==
    (lpc = "done" /\ loadResult)
        => \A k \in 1..Len(loadCalls) :
              ~loadCalls[k].handle.null => loadCalls[k].handle \in ReturnedDependencies

(***************************************************************************)
(* C12: when LoadDependency returns null for the phys preset or the phys   *)
(* constraints, the load has ended there with the result false, and the    *)
(* unresolved asset is neither in the loader's dependency set nor in the   *)
(* caller's vector.                                                        *)
(***************************************************************************)
C12_UnresolvedFails ==
    \A k \in 1..Len(loadCalls) :
        loadCalls[k].handle.null =>
            /\ lpc = "done"
            /\ loadResult = FALSE
            /\ k = Len(loadCalls)
            /\ \A d \in m_dependencies \cup ReturnedDependencies :
                  /\ ~d.null
                  /\ ~(d.type = loadCalls[k].type /\ d.name = loadCalls[k].name)

\* the phys preset is found and emplaced, the phys constraints are not found
C12_Witness ==
    /\ lpc = "done"
    /\ ~loadResult
    /\ Len(loadCalls) = 2
    /\ ~loadCalls[1].handle.null
    /\ loadCalls[2].handle.null
    /\ m_dependencies = {AssetInfo(ASSET_TYPE_PHYSPRESET, "asset_a")}

(***************************************************************************)
(* Definitions used to state the properties of FillInfoString.             *)
(***************************************************************************)
\* the position of a key in the field table, 0 if the table does not have it
FieldPosition(key) ==
    IF \E k \in 1..Len(fields) : fields[k].szName = key
    THEN CHOOSE k \in 1..Len(fields) : fields[k].szName = key
    ELSE 0

\* the values the info string holds for a key
ValuesOf(key) == {infoString[a].value : a \in {b \in 1..Len(infoString) : infoString[b].key = key}}

\* the fields that FillInfoString has gone through
Converted == 1..Len(visited)

(***************************************************************************)
(* C13: FillInfoString visits the field descriptors in table order, each   *)
(* once; a field with a tag in [0, CSPFT_NUM_BASE_FIELD_TYPES) is handed   *)
(* to FillFromBaseField, a field with a tag from CSPFT_NUM_BASE_FIELD_TYPES*)
(* on is handed to FillFromExtensionField, both with the descriptor of the *)
(* table; the keys of the info string are in the order of the table.       *)
(***************************************************************************)
C13_TableOrder ==
    /\ Len(visited) <= Len(fields)
    /\ cpc = "fill" => Len(visited) = fieldIndex
    /\ cpc \in {"convert", "done"} => Len(visited) = Len(fields)
    /\ \A k \in Converted :
          /\ visited[k].index = k - 1
          /\ visited[k].field = fields[k]
          /\ fields[k].iFieldType >= 0
          /\ visited[k].route = "base" <=> fields[k].iFieldType < CSPFT_NUM_BASE_FIELD_TYPES
          /\ visited[k].route = "extension" <=> fields[k].iFieldType >= CSPFT_NUM_BASE_FIELD_TYPES
    /\ \A a \in 1..Len(infoString) :
          /\ FieldPosition(infoString[a].key) \in Converted
          /\ \A b \in 1..Len(infoString) :
                a < b => FieldPosition(infoString[a].key) < FieldPosition(infoString[b].key)

\* a base field, then an extension field, both with a key
C13_Witness ==
    /\ cpc = "convert"
    /\ Len(fields) = 2
    /\ visited = <<Visit(0, "base", Field(1, CSPFT_INT)),
                   Visit(1, "extension", Field(2, CSPFT_NUM_BASE_FIELD_TYPES + 1))>>
    /\ Len(infoString) = 2
    /\ infoString[1].key = "fieldA"
    /\ infoString[2].key = "fieldB"

PointerTypes ==
    {CSPFT_FX, CSPFT_XMODEL, CSPFT_MATERIAL, CSPFT_MATERIAL_STREAM, CSPFT_PHYS_PRESET,
     CSPFT_TRACER}

(***************************************************************************)
(* C14: once a field of a resource-pointer type (FX, XMODEL, MATERIAL,     *)
(* MATERIAL_STREAM, PHYS_PRESET, TRACER) has been converted, the info      *)
(* string has its key, with the name of the referenced asset for a         *)
(* non-null pointer and with the empty string for a null pointer.          *)
(***************************************************************************)
C14_PointerKeyAlwaysSet ==
    \A k \in Converted :
        fields[k].iFieldType \in PointerTypes =>
            ValuesOf(fields[k].szName) =
                {IF structure[k].s = NullPtr THEN "" ELSE structure[k].s}

\* a tracer pointer that is null behind an effect pointer that is not
C14_Witness ==
    /\ cpc = "convert"
    /\ Len(fields) = 2
    /\ fields[1].iFieldType = CSPFT_FX
    /\ fields[2].iFieldType = CSPFT_TRACER
    /\ structure = <<Val(0, "asset"), Val(0, NullPtr)>>
    /\ infoString = <<[key |-> "fieldA", value |-> "asset"], [key |-> "fieldB", value |-> ""]>>

(***************************************************************************)
(* C15: once a SOUND_ALIAS_ID field has been converted, the info string    *)
(* has its key with "@" followed by the unsigned decimal rendering of the  *)
(* 32-bit hash, also for the hash 0 and for a hash with the top bit set.   *)
(***************************************************************************)
C15_SoundAliasHash ==
    \A k \in Converted :
        fields[k].iFieldType = CSPFT_SOUND_ALIAS_ID =>
            ValuesOf(fields[k].szName) =
                {CASE structure[k].i = 0 -> "@0"
                   [] structure[k].i = 12345 -> "@12345"
                   [] structure[k].i = -1 -> "@4294967295"
                   [] OTHER -> "@" \o UnsignedDecimal(structure[k].i)}

\* the hash 0 and the hash 0xFFFFFFFF
C15_Witness ==
    /\ cpc = "convert"
    /\ Len(fields) = 2
    /\ \A k \in 1..2 : fields[k].iFieldType = CSPFT_SOUND_ALIAS_ID
    /\ structure = <<Val(0, NullPtr), Val(-1, NullPtr)>>
    /\ infoString = <<[key |-> "fieldA", value |-> "@0"],
                      [key |-> "fieldB", value |-> "@4294967295"]>>

\* tags that are no base field type
NoBaseTypes == {-1, CSPFT_NUM_BASE_FIELD_TYPES, CSPFT_NUM_BASE_FIELD_TYPES + 1}

C17_InputUnchanged ==
    [][cpc = "fill" => /\ structure' = structure
                       /\ fields' = fields
                       /\ target' = target]_vars

\* a structure with a string and an asset reference has been converted
C17_Witness ==
    /\ cpc = "convert"
    /\ Len(fields) = 2
    /\ fields[1].iFieldType = CSPFT_STRING
    /\ fields[2].iFieldType = CSPFT_XMODEL
    /\ structure = <<Val(0, "abc"), Val(0, "asset")>>
    /\ infoString = <<[key |-> "fieldA", value |-> "abc"], [key |-> "fieldB", value |-> "asset"]>>

(***************************************************************************)
(* C18: WriteStatementProperty writes nothing for a null statement and for *)
(* a negative numEntries; for every other statement, also one without      *)
(* entries, it writes one property line: indent and key first, ";\n" as    *)
(* the last piece and nowhere else.                                        *)
(***************************************************************************)
C18_PropertyLine ==
    IF statementValue.null \/ statementValue.numEntries < 0
    THEN out = <<>>
    ELSE /\ \A k \in 1..(Len(out) - 1) : out[k] # ";\n"
         /\ pc = "done" =>
               /\ Len(out) > Len(Prefix)
               /\ SubSeq(out, 1, Len(Prefix)) = Prefix
               /\ out[Len(out)] = ";\n"
         /\ pc \in {"call", "range"} => \A k \in 1..Len(out) : out[k] # ";\n"

\* a statement without entries
C18_Witness ==
    /\ pc = "done"
    /\ ~statementValue.null
    /\ statementValue.numEntries = 0
    /\ ~isBooleanStatement
    /\ out = Prefix \o <<";\n">>

(***************************************************************************)
(* C19: every read of statement->entries uses an index below numEntries;   *)
(* a static dvar operator that is the last entry does not make the         *)
(* serializer read entries[numEntries].                                    *)
(***************************************************************************)
C19_ReadsInRange ==
    /\ ~oobRead
    /\ pc = "range" =>
          \A k \in 1..Len(stack) : stack[k].endOffset <= statementValue.numEntries

\* the cursor of the call of WriteStatementEntryRange at depth k
CursorOf(s, k) == s[k].currentPos

\* a number that every step of the serializer makes smaller: the cursor of
\* the innermost range counts first, the depth of the recursion second
Remaining(s) ==
    IF s = <<>> THEN 0
    ELSE (statementValue.numEntries + 2 - CursorOf(s, Len(s))) * (statementValue.numEntries + 2)
             + Len(s)

(***************************************************************************)
(* C20: the serialization terminates.  An iteration of the loop of         *)
(* WriteStatementEntryRange moves the cursor forward: by one for an        *)
(* operand and for an ordinary operator, to closingParenPos + 1, behind    *)
(* the old cursor, for a parenthesis, a function and a static dvar; a      *)
(* recursive call gets a range that starts one behind the cursor of its    *)
(* caller; every step lowers a number that is never below 0, and the call  *)
(* of WriteStatementProperty returns.                                      *)
(***************************************************************************)
C20_Terminates ==
    /\ <>(pc = "done")
    /\ [][pc = "range" =>
             LET n == Len(stack)
                 top == stack[n]
             IN /\ Remaining(stack) > 0
                /\ Remaining(stack') >= 0
                /\ Remaining(stack') < Remaining(stack)
                /\ (pc' = "range" /\ Len(stack') = n) =>
                      \* an operand, an ordinary operator or a static dvar
                      /\ CursorOf(stack', n) > CursorOf(stack, n)
                      /\ (~IsStaticDvar(EntryAt(statementValue, top.currentPos).op)
                           \/ EntryAt(statementValue, top.currentPos).type # EET_OPERATOR)
                            => CursorOf(stack', n) = CursorOf(stack, n) + 1
                /\ (pc' = "range" /\ Len(stack') = n + 1) =>
                      \* the recursive call for a parenthesis or a function
                      /\ stack'[n + 1].startOffset = top.currentPos + 1
                      /\ CursorOf(stack', n + 1) > top.currentPos
                      /\ stack'[n].closingParenPos >= top.currentPos + 1
                      /\ CursorOf(stack', n) = top.currentPos
                /\ (pc' = "range" /\ Len(stack') = n - 1) =>
                      \* the return from the recursive call ends the iteration
                      /\ CursorOf(stack', n - 1) = stack[n - 1].closingParenPos + 1
                      /\ CursorOf(stack', n - 1) > CursorOf(stack, n - 1)]_vars

\* a function call that holds a parenthesis and a static dvar has been written
C20_Witness ==
    /\ pc = "done"
    /\ Len(Entries) = 4
    /\ Entries[1] = Op(EXP_FUNC_INT)
    /\ Entries[2] = Op(OP_LEFTPAREN)
    /\ Entries[3] = Op(EXP_FUNC_STATIC_DVAR_INT)
    /\ Len(trace) >= 6

(***************************************************************************)
(* C21: no entry is rendered twice, and tokens are rendered in increasing  *)
(* entry order: the closing position computed for a parenthesis, a         *)
(* function or a static dvar inside a range [start, end) is at most end,   *)
(* a nested range lies inside the range of its caller behind the caller's  *)
(* cursor, and the positions of the rendered tokens grow strictly.         *)
(***************************************************************************)
C21_NestedRangesInside ==
    /\ \A k \in 1..(Len(stack) - 1) :
          /\ stack[k].closingParenPos <= stack[k].endOffset
          /\ stack[k + 1].startOffset = stack[k].currentPos + 1
          /\ stack[k + 1].endOffset = stack[k].closingParenPos
          /\ stack[k].startOffset <= stack[k].currentPos
    /\ \A i \in Events({"open"}) :
          /\ trace[i].ret > trace[i].pos
          /\ trace[i].ret <= RangeEnd(trace[i].range)
          /\ trace[i].ret <= statementValue.numEntries
    /\ \A i \in Events(TokenKinds) :
          /\ trace[i].pos >= trace[i].range
          /\ trace[i].pos < RangeEnd(trace[i].range)
          /\ \A j \in Events(TokenKinds) : i < j => trace[i].pos < trace[j].pos

\* a function call with its closing parenthesis inside an unclosed parenthesis
C21_Witness ==
    /\ pc = "done"
    /\ Entries = <<Op(OP_LEFTPAREN), Op(EXP_FUNC_INT), Operand(VAL_INT, 0), Op(OP_RIGHTPAREN)>>
    /\ Len(trace) = 5
    /\ trace[2].kind = "open"
    /\ trace[2].ret = 3
    /\ trace[1].ret = 4

\* LoadSoundAliasList has returned true to LoadFromRaw
AliasListLoaded ==
    /\ ~sndInput.direct
    /\ \/ spc \in {"reverbs", "ducks", "register"}
       \/ spc = "done" /\ sndResult

\* the rows at which a maximal run of rows of one name starts, the start of
\* the k-th run and its length
RunStarts(rows) == {k \in 1..Len(rows) : k = 1 \/ rows[k].name # rows[k - 1].name}

StartOfRun(rows, k) ==
    CHOOSE s \in RunStarts(rows) : Cardinality({t \in RunStarts(rows) : t <= s}) = k

LengthOfRun(rows, k) ==
    IF k = Cardinality(RunStarts(rows))
    THEN Len(rows) + 1 - StartOfRun(rows, k)
    ELSE StartOfRun(rows, k + 1) - StartOfRun(rows, k)

RECURSIVE SumOfCounts(_)
SumOfCounts(alias) ==
    IF alias = <<>> THEN 0 ELSE alias[1].count + SumOfCounts(Tail(alias))

\* C22: when LoadSoundAliasList succeeds on an aliases file of at least one
\* row, the alias lists are the maximal runs of consecutive rows of one
\* name, in file order: there are as many lists as runs, a list has the
\* length, the rows, the name and the id of its run, the lengths add up to
\* the number of rows, and equal names that are not adjacent make two lists.
C22_ListsAreRuns ==
    LET rows == sndInput.aliasFile.rows IN
    (AliasListLoaded /\ Len(rows) >= 1) =>
        /\ sndBank.aliasCount = Cardinality(RunStarts(rows))
        /\ Len(sndBank.alias) = sndBank.aliasCount
        /\ SumOfCounts(sndBank.alias) = Len(rows)
        /\ \A k \in 1..sndBank.aliasCount :
              LET list == sndBank.alias[k]
                  start == StartOfRun(rows, k)
              IN /\ list.count = LengthOfRun(rows, k)
                 /\ Len(list.head) = list.count
                 /\ list.name = rows[start].name
                 /\ list.id = SND_HashName(rows[start].name)
                 /\ list.id = list.head[1].id
                 /\ \A m \in 1..list.count : list.head[m].name = rows[start + m - 1].name

C22_Witness ==
    /\ AliasListLoaded
    /\ spc = "done"
    /\ Len(sndInput.aliasFile.rows) = 3
    /\ sndBank.aliasCount = 2
    /\ sndBank.alias[1].count = 2
    /\ sndBank.alias[2].count = 1

\* LoadSoundAliasIndexList has returned true
IndexListBuilt ==
    \/ sndInput.direct /\ spc = "done" /\ sndResult
    \/ AliasListLoaded /\ Len(sndInput.aliasFile.rows) > 0

HomeSlot(i) == sndBank.alias[i + 1].id % sndBank.aliasCount

\* the lookup of alias list i from slot idx on, over at most fuel slots:
\* every slot on the way holds a list of the same home slot, and the slot
\* of i comes before the end of the links
RECURSIVE FoundFrom(_, _, _)
FoundFrom(idx, i, fuel) ==
    LET entry == sndBank.aliasIndex[idx + 1] IN
    /\ fuel > 0
    /\ entry.value # USHRT_MAX
    /\ HomeSlot(entry.value) = HomeSlot(i)
    /\ \/ entry.value = i
       \/ /\ entry.next # USHRT_MAX
          /\ FoundFrom(entry.next, i, fuel - 1)

\* the links from slot idx on end within fuel slots
RECURSIVE LinksEnd(_, _)
LinksEnd(idx, fuel) ==
    /\ fuel > 0
    /\ \/ sndBank.aliasIndex[idx + 1].next = USHRT_MAX
       \/ /\ sndBank.aliasIndex[idx + 1].next < sndBank.aliasCount
          /\ LinksEnd(sndBank.aliasIndex[idx + 1].next, fuel - 1)

ToBePlaced ==
    /\ spc = "second"
    /\ sndLocals.i < sndBank.aliasCount
    /\ ~sndLocals.setAliasIndexList[sndLocals.i + 1]

\* C25: for an alias table of 1 <= aliasCount < 65535 lists of any ids
\* LoadSoundAliasIndexList never takes the "Unable to allocate sound bank
\* alias index list" branch: whenever a list still has to be placed, the
\* probe of idx + offset and idx - offset for offset 1..aliasCount-1 finds
\* an empty slot, and the function returns true.
C25_ProbeFindsSlot ==
    /\ [](ToBePlaced =>
            LET idx == WalkToEnd(sndBank.aliasIndex, HomeSlot(sndLocals.i)) IN
            \E offset \in 1..(sndBank.aliasCount - 1) :
                \/ sndBank.aliasIndex[((idx + offset) % sndBank.aliasCount) + 1].value
                       = USHRT_MAX
                \/ sndBank.aliasIndex[((idx + sndBank.aliasCount - offset)
                                          % sndBank.aliasCount) + 1].value = USHRT_MAX)
    /\ [][spc = "second" =>
            \/ spc' \in {"second", "reverbs"}
            \/ spc' = "done" /\ sndResult']_vars

\* a list was placed two slots from the end of its links, both neighbours
\* being taken
C25_Witness ==
    /\ sndInput.direct
    /\ spc = "done"
    /\ sndResult
    /\ sndBank.aliasCount = 4
    /\ \E idx \in 0..3 :
          sndBank.aliasIndex[idx + 1].next = (idx + 2) % 4

\* the rows of the aliases file that count as loaded
LoadedRows ==
    {k \in 1..Len(sndInput.aliasFile.rows) : sndInput.aliasFile.rows[k].type = "loaded"}

\* C26: when LoadSoundAliasList returns true the two counters, zero at the
\* call, add up to the number of rows of the aliases file: every row is
\* counted once, as loaded when its load type is SA_LOADED and as streamed
\* otherwise.
C26_EveryRowCountedOnce ==
    AliasListLoaded =>
        /\ sndLocals.loadedEntryCount + sndLocals.streamedEntryCount
               = Len(sndInput.aliasFile.rows)
        /\ sndLocals.loadedEntryCount = Cardinality(LoadedRows)
        /\ sndLocals.streamedEntryCount
               = Len(sndInput.aliasFile.rows) - Cardinality(LoadedRows)

C26_Witness ==
    /\ AliasListLoaded
    /\ spc = "done"
    /\ Len(sndInput.aliasFile.rows) = 3
    /\ sndLocals.loadedEntryCount = 2
    /\ sndLocals.streamedEntryCount = 1

\* the inputs of LoadFromRaw that the load does not accept
BadRow(rows) == \E k \in 1..Len(rows) : rows[k].name = "" \/ rows[k].file = ""

BadAliases == ~sndInput.aliasFile.open \/ BadRow(sndInput.aliasFile.rows)

BadRadverbs ==
    /\ sndInput.radverbFile.open
    /\ \E k \in 1..Len(sndInput.radverbFile.rows) : sndInput.radverbFile.rows[k].name = ""

BadDuckList ==
    /\ sndInput.duckListFile.open
    /\ \E k \in 1..Len(sndInput.duckListFile.rows) :
          sndInput.duckListFile.rows[k].name # "d"

NameWithoutDot == \A k \in 1..Len(sndInput.assetName) : sndInput.assetName[k] # "."

\* C27: LoadFromRaw registers the sound bank with the manager exactly once
\* when it returns true and never when it returns false: an asset name
\* without '.', a missing aliases file, an alias row of empty name or file,
\* and an invalid reverbs or ducklist file each end the load before
\* AddAsset, and a missing reverbs or ducklist file is no failure.
C27_AddedExactlyWhenTrue ==
    ~sndInput.direct =>
        /\ Len(addedAssets) <= 1
        /\ (spc = "done" /\ sndResult) =>
              addedAssets = <<[type |-> ASSET_TYPE_SOUND, name |-> sndInput.assetName]>>
        /\ (spc = "done" /\ ~sndResult) => addedAssets = <<>>
        /\ (NameWithoutDot \/ BadAliases \/ BadRadverbs \/ BadDuckList) =>
              /\ addedAssets = <<>>
              /\ ~sndResult
        /\ (/\ spc = "done"
            /\ ~NameWithoutDot
            /\ ~BadAliases
            /\ ~sndInput.radverbFile.open
            /\ ~sndInput.duckListFile.open) => sndResult

C27_Witness ==
    /\ ~sndInput.direct
    /\ spc = "done"
    /\ sndResult
    /\ Len(addedAssets) = 1
    /\ Len(sndInput.aliasFile.rows) > 0
    /\ ~sndInput.radverbFile.open
    /\ ~sndInput.duckListFile.open

====
